---- MODULE Spec2Model ----
(***************************************************************************)
(* Model of the mastery/scheduling engine and the exercise-synthesis       *)
(* pipeline of chinese-tutor.                                              *)
(*                                                                         *)
(* Probabilities are exact rationals <<numerator, denominator>>; the      *)
(* absent value (Python None) of an optional probability is <<0, 0>>.     *)
(* Timestamps are integer ticks; the absent timestamp is -1.               *)
(***************************************************************************)
EXTENDS Integers, Sequences, FiniteSets, TLC

(***************************************************************************)
(* Bounds of the model                                                     *)
(***************************************************************************)
MaxTime == 2
MaxSteps == 3
MaxStability == 3
MaxSchedSteps == 2
MaxSchedTime == 1

(***************************************************************************)
(* Rational arithmetic                                                     *)
(***************************************************************************)
RECURSIVE GCD(_, _)
GCD(a, b) == IF b = 0 THEN a ELSE GCD(b, a % b)

Abs(x) == IF x < 0 THEN -x ELSE x

Norm(n, d) ==
    IF n = 0 THEN <<0, 1>>
    ELSE LET g == GCD(Abs(n), Abs(d))
             sgn == IF d < 0 THEN -1 ELSE 1
         IN <<sgn * (n \div g), sgn * (d \div g)>>

NoneRat == <<0, 0>>
IsNone(r) == r[2] = 0
Zero == <<0, 1>>
One == <<1, 1>>

\* Sums and products cancel common factors before multiplying, so that the
\* intermediate integers stay small.
RAdd(a, b) ==
    LET g == GCD(a[2], b[2])
    IN Norm(a[1] * (b[2] \div g) + b[1] * (a[2] \div g), (a[2] \div g) * b[2])
RNeg(a) == <<-a[1], a[2]>>
RSub(a, b) == RAdd(a, RNeg(b))
RMul(a, b) ==
    IF a[1] = 0 \/ b[1] = 0 THEN <<0, 1>>
    ELSE LET g1 == GCD(Abs(a[1]), b[2])
             g2 == GCD(Abs(b[1]), a[2])
         IN Norm((a[1] \div g1) * (b[1] \div g2),
                 (a[2] \div g2) * (b[2] \div g1))
RDiv(a, b) == RMul(a, <<b[2], b[1]>>)
\* a/b <= c/d for b, d > 0, by integer parts and then the reciprocals of the
\* fractional parts: no product is formed
RECURSIVE FracLeq(_, _, _, _)
FracLeq(a, b, c, d) ==
    IF a \div b # c \div d THEN a \div b < c \div d
    ELSE IF a % b = 0 THEN TRUE
    ELSE IF c % d = 0 THEN FALSE
    ELSE FracLeq(d, c % d, b, a % b)

RLeq(a, b) ==
    IF IsNone(a) \/ IsNone(b) THEN a[1] <= b[1]
    ELSE FracLeq(a[1], a[2], b[1], b[2])
RLt(a, b) == ~RLeq(b, a)
InUnit(r) == RLeq(Zero, r) /\ RLeq(r, One)

(***************************************************************************)
(* Program constants                                                       *)
(***************************************************************************)
DefaultTransit == <<3, 10>>
DefaultSlip == <<1, 10>>
DefaultGuess == <<1, 5>>
MASTERY_THRESHOLD == <<19, 20>>

Again == 1
Good == 3
Ratings == {Again, Good}
RatingOf(correct) == IF correct THEN Good ELSE Again

StateLearning == 1
StateReview == 2
StateRelearning == 3
NoStep == -1
NoTime == -1

(***************************************************************************)
(* The external spaced-repetition calculator (py-fsrs), reduced to its    *)
(* contract: a review stamps last_review, moves the card through its      *)
(* learning steps and sets a due date strictly after the review.          *)
(***************************************************************************)
NoCard == [set |-> FALSE, stability |-> 0, due |-> NoTime,
           last_review |-> NoTime, state |-> StateLearning, step |-> 0]

NewCard(now) == [set |-> TRUE, stability |-> 0, due |-> now,
                 last_review |-> NoTime, state |-> StateLearning, step |-> 0]

NextStability(card, rating) ==
    IF card.stability = 0 THEN 1
    ELSE IF rating = Again
         THEN (IF card.stability > 1 THEN card.stability - 1 ELSE 1)
         ELSE (IF card.stability < MaxStability THEN card.stability + 1
               ELSE MaxStability)

ReviewCard(card, rating, now) ==
    LET stab == NextStability(card, rating)
    IN IF card.state = StateReview
       THEN IF rating = Again
            THEN [set |-> TRUE, stability |-> stab, due |-> now + 1,
                  last_review |-> now, state |-> StateRelearning, step |-> 0]
            ELSE [set |-> TRUE, stability |-> stab, due |-> now + stab,
                  last_review |-> now, state |-> StateReview, step |-> NoStep]
       ELSE IF rating = Again
            THEN [set |-> TRUE, stability |-> stab, due |-> now + 1,
                  last_review |-> now, state |-> card.state, step |-> 0]
            ELSE IF card.state = StateLearning /\ card.step = 0
                 THEN [set |-> TRUE, stability |-> stab, due |-> now + 1,
                       last_review |-> now, state |-> StateLearning,
                       step |-> 1]
                 ELSE [set |-> TRUE, stability |-> stab, due |-> now + stab,
                       last_review |-> now, state |-> StateReview,
                       step |-> NoStep]

Retrievability(card, now) ==
    IF card.last_review = NoTime THEN Zero
    ELSE LET elapsed == IF now > card.last_review
                        THEN now - card.last_review ELSE 0
         IN Norm(card.stability, card.stability + elapsed)

(***************************************************************************)
(* Mastery record: src/models.py StudentMastery, with the learning-mode   *)
(* fields that src/bkt.py and src/fsrs_scheduler.py read and write.       *)
(***************************************************************************)
NewMastery(p, t, s, g, mode, card) ==
    [p_known |-> p, p_transit |-> t, p_slip |-> s, p_guess |-> g,
     scheduling_mode |-> mode, fsrs_state |-> card,
     transitioned_to_fsrs_at |-> NoTime, last_practiced |-> NoTime,
     practice_count |-> 0, correct_count |-> 0, consecutive_correct |-> 0]

Ok(m, ret) == [rec |-> m, err |-> "none", ret |-> ret]
Raise(m, e) == [rec |-> m, err |-> e, ret |-> NoneRat]

\* src/models.py: due_date
due_date(m) == IF ~m.fsrs_state.set THEN NoTime ELSE m.fsrs_state.due

is_due_or_unset(m, t) == IF due_date(m) = NoTime THEN TRUE ELSE t >= due_date(m)

\* src/models.py: is_due
is_due(m, t) == IF due_date(m) = NoTime THEN FALSE ELSE t >= due_date(m)

\* src/models.py: retrievability (NoneRat when the state is not initialized)
retrievability(m, t) ==
    IF ~m.fsrs_state.set THEN NoneRat ELSE Retrievability(m.fsrs_state, t)

\* src/fsrs_scheduler.py: get_fsrs_due_date
get_fsrs_due_date(m) ==
    IF m.scheduling_mode # "fsrs" THEN NoTime
    ELSE IF ~m.fsrs_state.set THEN NoTime
    ELSE m.fsrs_state.due

\* src/fsrs_scheduler.py: is_fsrs_due
is_fsrs_due(m, t) ==
    IF get_fsrs_due_date(m) = NoTime THEN FALSE
    ELSE t >= get_fsrs_due_date(m)

\* src/fsrs_scheduler.py: get_fsrs_retrievability
get_fsrs_retrievability(m, t) ==
    IF m.scheduling_mode # "fsrs" THEN NoneRat
    ELSE IF ~m.fsrs_state.set THEN NoneRat
    ELSE Retrievability(m.fsrs_state, t)

\* src/fsrs_scheduler.py: initialize_fsrs_for_mastery
initialize_fsrs_for_mastery(m, t) ==
    [m EXCEPT !.fsrs_state = ReviewCard(NewCard(t), Good, t),
              !.scheduling_mode = "fsrs",
              !.transitioned_to_fsrs_at = t]

\* src/fsrs_scheduler.py: process_fsrs_review
process_fsrs_review(m, correct, t) ==
    IF ~m.fsrs_state.set
    THEN Raise(m, "ValueError")
    ELSE Ok([m EXCEPT !.fsrs_state =
                 ReviewCard(m.fsrs_state, RatingOf(correct), t)], NoneRat)

\* src/models.py: StudentMastery.initialize_fsrs
initialize_fsrs(m, rating, t) ==
    [m EXCEPT !.fsrs_state = ReviewCard(NewCard(t), rating, t)]

\* src/models.py: StudentMastery.process_review
process_review(m, rating, t) ==
    LET seeded == initialize_fsrs(m, rating, t)
    IN Ok([seeded EXCEPT !.fsrs_state =
               ReviewCard(seeded.fsrs_state, rating, t)], NoneRat)

(***************************************************************************)
(* Bayesian Knowledge Tracing: src/bkt.py update_mastery                   *)
(***************************************************************************)
OrDefault(v, dflt) == IF IsNone(v) THEN dflt ELSE v

Posterior(p_l, p_s, p_g, correct) ==
    IF correct
    THEN LET hit == RMul(p_l, RSub(One, p_s))
             p_correct == RAdd(hit, RMul(RSub(One, p_l), p_g))
         IN IF RLt(Zero, p_correct) THEN RDiv(hit, p_correct) ELSE p_l
    ELSE LET miss == RMul(p_l, p_s)
             p_incorrect == RAdd(miss, RMul(RSub(One, p_l), RSub(One, p_g)))
         IN IF RLt(Zero, p_incorrect) THEN RDiv(miss, p_incorrect) ELSE p_l

LearningTransitionNoComplement(p_l_given_obs, p_t) == RAdd(p_l_given_obs, p_t)

LearningTransitionForgetting(p_l_given_obs, p_t) ==
    RSub(p_l_given_obs, RMul(RSub(One, p_l_given_obs), p_t))

LearningTransition(p_l_given_obs, p_t) ==
    RAdd(p_l_given_obs, RMul(RSub(One, p_l_given_obs), p_t))

update_mastery_strict(m, correct, t) ==
    IF m.scheduling_mode = "bkt"
       /\ (IsNone(m.p_known) \/ IsNone(m.p_transit)
            \/ IsNone(m.p_slip) \/ IsNone(m.p_guess))
    THEN Raise(m, "ValueError")
    ELSE Ok([m EXCEPT !.p_known =
                 LearningTransition(
                     Posterior(m.p_known, m.p_slip, m.p_guess, correct),
                     m.p_transit)],
            LearningTransition(
                Posterior(m.p_known, m.p_slip, m.p_guess, correct),
                m.p_transit))

update_mastery(m, correct, t) ==
    IF m.scheduling_mode = "fsrs"
    THEN LET r == process_fsrs_review(m, correct, t)
         IN IF r.err # "none" THEN r
            ELSE LET ret == get_fsrs_retrievability(r.rec, t)
                 IN Ok(r.rec, IF IsNone(ret) THEN One ELSE ret)
    ELSE IF IsNone(m.p_known)
         THEN Raise(m, "ValueError")
         ELSE LET p_l == m.p_known
                  p_t == OrDefault(m.p_transit, DefaultTransit)
                  p_s == OrDefault(m.p_slip, DefaultSlip)
                  p_g == OrDefault(m.p_guess, DefaultGuess)
                  p_l_new == LearningTransition(
                                 Posterior(p_l, p_s, p_g, correct), p_t)
              IN Ok([m EXCEPT !.p_known = p_l_new], p_l_new)

update_practice_stats_keeps_streak(m, correct, t) ==
    [m EXCEPT !.last_practiced = t,
              !.practice_count = @ + 1,
              !.correct_count = IF correct THEN @ + 1 ELSE @,
              !.consecutive_correct = IF correct THEN @ + 1 ELSE @]

\* src/scheduler.py: update_practice_stats
update_practice_stats(m, correct, t) ==
    [m EXCEPT !.last_practiced = t,
              !.practice_count = @ + 1,
              !.correct_count = IF correct THEN @ + 1 ELSE @,
              !.consecutive_correct = IF correct THEN @ + 1 ELSE 0]

\* is_mastered and the transition check are not in src/models.py or
\* src/scheduler.py; they follow spec sections 4.1 and 4.3 (3).
is_mastered(m) ==
    \/ m.scheduling_mode = "fsrs"
    \/ (~IsNone(m.p_known) /\ RLeq(MASTERY_THRESHOLD, m.p_known))

check_and_transition_to_fsrs(m, t) ==
    IF m.scheduling_mode = "bkt" /\ ~IsNone(m.p_known)
       /\ RLeq(MASTERY_THRESHOLD, m.p_known)
    THEN initialize_fsrs_for_mastery(m, t)
    ELSE m

\* src/main.py run_interactive: the mastery update of one referenced item
interactive_update(m, correct, t) ==
    LET seeded == IF ~m.fsrs_state.set
                  THEN initialize_fsrs_for_mastery(m, t) ELSE m
        r == process_fsrs_review(seeded, correct, t)
    IN IF r.err # "none" THEN r
       ELSE Ok(update_practice_stats(r.rec, correct, t), NoneRat)

(***************************************************************************)
(* Scheduler: src/scheduler.py ExerciseScheduler over a student state      *)
(* (src/models.py StudentState).  A student state is a record              *)
(* [masteries, stored]: masteries maps every id to its record, stored is   *)
(* the set of ids whose record has been created in the masteries dict.     *)
(***************************************************************************)
KpOrder == <<"v001", "v002", "v003">>
KpIds == {KpOrder[i] : i \in 1..Len(KpOrder)}
UnknownId == "v999"
AllIds == KpIds \cup {UnknownId}

NoSize == -1

FreshMastery ==
    NewMastery(Zero, DefaultTransit, DefaultSlip, DefaultGuess, "bkt", NoCard)

\* src/models.py: StudentState.get_mastery (creates the record when absent)
get_mastery(st, id) == [st EXCEPT !.stored = @ \cup {id}]

\* src/scheduler.py: _get_mastery_for_kp; the record is .masteries[id] of the
\* student state returned
get_mastery_for_kp(st, id, t) ==
    LET s1 == get_mastery(st, id)
    IN IF ~s1.masteries[id].fsrs_state.set
       THEN [s1 EXCEPT !.masteries[id] = initialize_fsrs(@, Good, t)]
       ELSE s1

scheduler_prerequisites_always_met(g, st, kp_id, t) == [st |-> st, met |-> TRUE]

RECURSIVE PrereqLoop(_, _, _, _)
PrereqLoop(st, prereqs, i, t) ==
    IF i > Len(prereqs) THEN [st |-> st, met |-> TRUE]
    ELSE LET s1 == get_mastery_for_kp(st, prereqs[i], t)
         IN IF ~is_mastered(s1.masteries[prereqs[i]])
            THEN [st |-> s1, met |-> FALSE]
            ELSE PrereqLoop(s1, prereqs, i + 1, t)

\* src/scheduler.py: ExerciseScheduler._prerequisites_met; g maps each known
\* id to the list of its prerequisite ids
scheduler_prerequisites_met(g, st, kp_id, t) ==
    IF kp_id \notin DOMAIN g THEN [st |-> st, met |-> FALSE]
    ELSE PrereqLoop(st, g[kp_id], 1, t)

RECURSIVE EligibleLoop(_, _, _, _, _)
EligibleLoop(g, st, i, t, acc) ==
    IF i > Len(KpOrder) THEN [st |-> st, ids |-> acc]
    ELSE LET r == scheduler_prerequisites_met(g, st, KpOrder[i], t)
         IN EligibleLoop(g, r.st, i + 1, t,
                IF r.met THEN Append(acc, KpOrder[i]) ELSE acc)

RECURSIVE DueLoop(_, _, _, _, _)
DueLoop(st, eligible, i, t, acc) ==
    IF i > Len(eligible) THEN [st |-> st, ids |-> acc]
    ELSE LET s1 == get_mastery_for_kp(st, eligible[i], t)
         IN DueLoop(s1, eligible, i + 1, t,
                IF is_due(s1.masteries[eligible[i]], t)
                THEN Append(acc, eligible[i]) ELSE acc)

score_by_retrievability(m, t) ==
    IF ~IsNone(retrievability(m, t)) THEN retrievability(m, t) ELSE <<1, 2>>

Score(m, t) ==
    IF ~IsNone(retrievability(m, t))
    THEN RSub(One, retrievability(m, t))
    ELSE <<1, 2>>

\* the later of two equally scored entries is put first
RECURSIVE InsertByScoreLaterFirst(_, _)
InsertByScoreLaterFirst(sorted, x) ==
    IF sorted = <<>> THEN <<x>>
    ELSE IF RLeq(Head(sorted).score, x.score)
         THEN <<x>> \o sorted
         ELSE <<Head(sorted)>> \o InsertByScoreLaterFirst(Tail(sorted), x)

\* scored.sort(key=score, reverse=True): stable, highest score first
RECURSIVE InsertByScore(_, _)
InsertByScore(sorted, x) ==
    IF sorted = <<>> THEN <<x>>
    ELSE IF RLt(Head(sorted).score, x.score)
         THEN <<x>> \o sorted
         ELSE <<Head(sorted)>> \o InsertByScore(Tail(sorted), x)

RECURSIVE SortByScore(_, _, _)
SortByScore(scored, i, acc) ==
    IF i > Len(scored) THEN acc
    ELSE SortByScore(scored, i + 1, InsertByScore(acc, scored[i]))

Truncate(seq, n) ==
    IF n = NoSize \/ n >= Len(seq) THEN seq ELSE SubSeq(seq, 1, n)

\* src/scheduler.py: ExerciseScheduler.compose_session_queue
compose_session_queue(g, st, session_size, t) ==
    LET e == EligibleLoop(g, st, 1, t, <<>>)
    IN IF e.ids = <<>> THEN [st |-> e.st, queue |-> <<>>]
       ELSE LET d == DueLoop(e.st, e.ids, 1, t, <<>>)
            IN IF d.ids = <<>> THEN [st |-> d.st, queue |-> <<>>]
               ELSE LET scored == [i \in 1..Len(d.ids) |->
                                     [id |-> d.ids[i],
                                      score |-> Score(d.st.masteries[d.ids[i]], t)]]
                        sorted == Truncate(SortByScore(scored, 1, <<>>),
                                           session_size)
                    IN [st |-> d.st,
                        queue |-> [i \in 1..Len(sorted) |-> sorted[i].id]]

\* only the first referenced id is updated
update_first_skill_only(st, kp_ids, i, is_correct, t) ==
    IF kp_ids = <<>> THEN st
    ELSE LET s1 == get_mastery_for_kp(st, kp_ids[1], t)
             r == process_review(s1.masteries[kp_ids[1]],
                                 RatingOf(is_correct), t)
         IN [s1 EXCEPT !.masteries[kp_ids[1]] =
                           update_practice_stats(r.rec, is_correct, t)]

\* src/scheduler.py: ExerciseScheduler.update_multi_skill_exercise
RECURSIVE update_multi_skill_exercise(_, _, _, _, _)
update_multi_skill_exercise(st, kp_ids, i, is_correct, t) ==
    IF i > Len(kp_ids) THEN st
    ELSE LET s1 == get_mastery_for_kp(st, kp_ids[i], t)
             r == process_review(s1.masteries[kp_ids[i]],
                                 RatingOf(is_correct), t)
             m == update_practice_stats(r.rec, is_correct, t)
         IN update_multi_skill_exercise(
                [s1 EXCEPT !.masteries[kp_ids[i]] = m],
                kp_ids, i + 1, is_correct, t)

\* src/main.py run_interactive: the mastery updates after one exercise
RECURSIVE interactive_updates(_, _, _, _, _, _)
interactive_updates(g, st, kp_ids, i, is_correct, t) ==
    IF i > Len(kp_ids) THEN st
    ELSE IF kp_ids[i] \notin DOMAIN g
         THEN interactive_updates(g, st, kp_ids, i + 1, is_correct, t)
         ELSE LET s1 == get_mastery(st, kp_ids[i])
                  r == interactive_update(s1.masteries[kp_ids[i]],
                                          is_correct, t)
              IN interactive_updates(
                     g, [s1 EXCEPT !.masteries[kp_ids[i]] = r.rec],
                     kp_ids, i + 1, is_correct, t)

(***************************************************************************)
(* Standalone functions of src/scheduler.py: prerequisites_met,            *)
(* calculate_kp_score and select_next_knowledge_point over a list of       *)
(* knowledge points (kps, a list of ids; kp_dict is its set of ids).       *)
(***************************************************************************)
Range(seq) == {seq[i] : i \in DOMAIN seq}

KpType(id) == IF id = "v002" THEN "grammar" ELSE "vocabulary"

\* hours in one unit of model time
HoursPerTick == 84

RMin(a, b) == IF RLeq(a, b) THEN a ELSE b
RMax(a, b) == IF RLeq(a, b) THEN b ELSE a

prerequisites_met_first_only(g, st, kp_id, kp_dict, t) ==
    IF g[kp_id] = <<>> \/ g[kp_id][1] \notin kp_dict
    THEN [st |-> st, met |-> TRUE]
    ELSE LET s1 == get_mastery_for_kp(st, g[kp_id][1], t)
         IN [st |-> s1, met |-> is_mastered(s1.masteries[g[kp_id][1]])]

RECURSIVE StandalonePrereqLoop(_, _, _, _, _)
StandalonePrereqLoop(st, prereqs, i, kp_dict, t) ==
    IF i > Len(prereqs) THEN [st |-> st, met |-> TRUE]
    ELSE IF prereqs[i] \notin kp_dict
         THEN StandalonePrereqLoop(st, prereqs, i + 1, kp_dict, t)
         ELSE LET s1 == get_mastery_for_kp(st, prereqs[i], t)
              IN IF ~is_mastered(s1.masteries[prereqs[i]])
                 THEN [st |-> s1, met |-> FALSE]
                 ELSE StandalonePrereqLoop(s1, prereqs, i + 1, kp_dict, t)

\* src/scheduler.py: prerequisites_met(kp, student_state, kp_dict)
prerequisites_met(g, st, kp_id, kp_dict, t) ==
    StandalonePrereqLoop(st, g[kp_id], 1, kp_dict, t)

\* src/scheduler.py: calculate_kp_score
calculate_kp_score(st, kp_id, prefer_type, t) ==
    LET s1 == get_mastery_for_kp(st, kp_id, t)
        due == due_date(s1.masteries[kp_id])
        base == IF due = NoTime THEN Zero
                ELSE IF t >= due
                     THEN RAdd(RMul(RMin(Norm((t - due) * HoursPerTick, 168),
                                         One),
                                    <<7, 10>>),
                               <<1, 2>>)
                     ELSE RMax(Zero,
                               RSub(<<1, 10>>,
                                    Norm((due - t) * HoursPerTick, 1000)))
    IN [st |-> s1,
        score |-> IF prefer_type # "none" /\ KpType(kp_id) = prefer_type
                  THEN RAdd(base, <<1, 10>>) ELSE base]

\* the type preferred after the type served last
PreferType(last_kp_type) ==
    IF last_kp_type = "vocabulary" THEN "grammar"
    ELSE IF last_kp_type = "grammar" THEN "vocabulary"
    ELSE "none"

RECURSIVE ScoreLoop(_, _, _, _, _, _, _)
ScoreLoop(g, st, kps, i, prefer_type, t, acc) ==
    IF i > Len(kps) THEN [st |-> st, scored |-> acc]
    ELSE LET r == prerequisites_met(g, st, kps[i], Range(kps), t)
         IN IF ~r.met
            THEN ScoreLoop(g, r.st, kps, i + 1, prefer_type, t, acc)
            ELSE LET c == calculate_kp_score(r.st, kps[i], prefer_type, t)
                 IN ScoreLoop(g, c.st, kps, i + 1, prefer_type, t,
                              Append(acc, [id |-> kps[i], score |-> c.score]))

fallback_first(st, kps, i) == [st |-> st, kp |-> kps[1]]

RECURSIVE FallbackLoop(_, _, _)
FallbackLoop(st, kps, i) ==
    IF i > Len(kps) THEN [st |-> st, kp |-> kps[1]]
    ELSE LET s1 == get_mastery(st, kps[i])
         IN IF ~is_mastered(s1.masteries[kps[i]])
            THEN [st |-> s1, kp |-> kps[i]]
            ELSE FallbackLoop(s1, kps, i + 1)

\* src/scheduler.py: select_next_knowledge_point; kp is "" for None
select_next_knowledge_point(g, st, kps, last_kp_type, t) ==
    IF kps = <<>> THEN [st |-> st, kp |-> ""]
    ELSE LET r == ScoreLoop(g, st, kps, 1, PreferType(last_kp_type), t, <<>>)
         IN IF r.scored = <<>> THEN FallbackLoop(r.st, kps, 1)
            ELSE [st |-> r.st, kp |-> SortByScore(r.scored, 1, <<>>)[1].id]

(***************************************************************************)
(* Exercise synthesis: src/exercises/chinese_populator.py,                 *)
(* src/exercises/generators.py, src/exercises/chinese_adapter.py.          *)
(* A vocabulary item is [id, chinese, english, cluster]: english is the    *)
(* first gloss, cluster the cluster tag ("" when the item has none).       *)
(* random.choice and random.shuffle are choices made by the caller of the  *)
(* operators below: pick is the index chosen, the orders are the shuffled  *)
(* index lists.                                                            *)
(***************************************************************************)
\* the concatenation of a list of lists
RECURSIVE Flatten(_)
Flatten(lists) ==
    IF lists = <<>> THEN <<>> ELSE Head(lists) \o Flatten(Tail(lists))

\* the positions of a list, in order
Positions(seq) == [i \in 1..Len(seq) |-> i]

\* all orders in which k distinct elements of the list can come first after
\* random.shuffle
Arrangements(list, k) ==
    {a \in [1..k -> Range(list)] : \A i, j \in 1..k : i # j => a[i] # a[j]}

Min(a, b) == IF a < b THEN a ELSE b
Max(a, b) == IF a > b THEN a ELSE b

\* list.index(x): 0-based position of the first element equal to x, -1 for
\* the ValueError raised when there is none
RECURSIVE IndexFrom(_, _, _)
IndexFrom(seq, x, i) ==
    IF i > Len(seq) THEN -1
    ELSE IF seq[i] = x THEN i - 1 ELSE IndexFrom(seq, x, i + 1)

index(seq, x) == IndexFrom(seq, x, 1)

\* src/exercises/chinese_populator.py: _is_same_cluster
is_same_cluster(kp1, kp2) == kp1.cluster # "" /\ kp1.cluster = kp2.cluster

\* the "chinese (pinyin)" rendering of an item
ChineseLabel(kp) == kp.chinese

\* src/exercises/chinese_populator.py: populate_multiple_choice
\* (chinese_to_english and english_to_chinese prompt types)
populate_multiple_choice(vocab) ==
    LET PromptsOf(i) ==
            <<[prompt_type_id |-> "chinese_to_english",
               value |-> vocab[i].chinese,
               correct_answer |-> vocab[i].english,
               knowledge_point_id |-> vocab[i].id],
              [prompt_type_id |-> "english_to_chinese",
               value |-> vocab[i].english,
               correct_answer |-> ChineseLabel(vocab[i]),
               knowledge_point_id |-> vocab[i].id]>>
        OptionsOf(i) ==
            LET Other(j) ==
                    IF vocab[j].id = vocab[i].id THEN <<>>
                    ELSE LET option_type ==
                                 IF is_same_cluster(vocab[i], vocab[j])
                                 THEN "distractor" ELSE "nondistractor"
                         IN <<[prompt_type_id |-> "chinese_to_english",
                               value |-> vocab[i].chinese,
                               option_type_id |-> option_type,
                               option_value |-> vocab[j].english],
                              [prompt_type_id |-> "english_to_chinese",
                               value |-> vocab[i].english,
                               option_type_id |-> option_type,
                               option_value |-> ChineseLabel(vocab[j])]>>
            IN Flatten([x \in 1..Len(vocab) |-> Other(x)])
    IN [prompt_values |-> Flatten([x \in 1..Len(vocab) |-> PromptsOf(x)]),
        options |-> Flatten([x \in 1..Len(vocab) |-> OptionsOf(x)])]

\* the cloze templates of the database: [id, target_vocab_id]
\* src/exercises/chinese_populator.py: populate_fill_blank
populate_fill_blank(vocab, templates) ==
    LET Targets(t) ==
            SelectSeq(Positions(vocab),
                      LAMBDA x : vocab[x].id = templates[t].target_vocab_id)
        \* kp_dict keeps the last item of each id
        Target(t) == vocab[Targets(t)[Len(Targets(t))]]
        FillsOf(t) ==
            IF Targets(t) = <<>> THEN <<>>
            ELSE <<[template_id |-> templates[t].id,
                    correct_answer |-> ChineseLabel(Target(t)),
                    knowledge_point_id |-> Target(t).id]>>
        OptionsOf(t) ==
            IF Targets(t) = <<>> THEN <<>>
            ELSE LET Other(j) ==
                         IF vocab[j].id = Target(t).id THEN <<>>
                         ELSE <<[template_id |-> templates[t].id,
                                 fill_value |-> ChineseLabel(Target(t)),
                                 option_type_id |->
                                     IF is_same_cluster(Target(t), vocab[j])
                                     THEN "distractor" ELSE "nondistractor",
                                 option_value |-> ChineseLabel(vocab[j])]>>
                 IN Flatten([x \in 1..Len(vocab) |-> Other(x)])
    IN [fills |-> Flatten([x \in 1..Len(templates) |-> FillsOf(x)]),
        options |-> Flatten([x \in 1..Len(templates) |-> OptionsOf(x)])]

PromptTypeIds == {"chinese_to_english", "english_to_chinese", "minimal_pair"}

\* src/exercises/generators.py MultipleChoiceGenerator.generate: candidates
mc_candidates(schema, target_kp_id, prompt_type_id) ==
    LET Matches(pv) ==
            /\ (target_kp_id # "" => pv.knowledge_point_id = target_kp_id)
            /\ (prompt_type_id # "" => pv.prompt_type_id = prompt_type_id)
    IN SelectSeq(Positions(schema.prompt_values),
                 LAMBDA x : Matches(schema.prompt_values[x]))

\* src/exercises/generators.py MultipleChoiceGenerator.generate: the options
\* of the chosen prompt value, by option type
mc_available_options(schema, pv, option_type_id) ==
    LET Matches(opt) ==
            /\ opt.prompt_type_id = pv.prompt_type_id
            /\ opt.value = pv.value
            /\ opt.option_type_id = option_type_id
    IN SelectSeq(Positions(schema.options),
                 LAMBDA x : Matches(schema.options[x]))

\* src/exercises/generators.py FillBlankGenerator.generate: candidates
fb_candidates(schema, target_kp_id) ==
    LET Matches(f) == target_kp_id # "" => f.knowledge_point_id = target_kp_id
    IN SelectSeq(Positions(schema.fills), LAMBDA x : Matches(schema.fills[x]))

\* src/exercises/generators.py FillBlankGenerator.generate: options
fb_available_options(schema, fill, option_type_id) ==
    LET Matches(opt) ==
            /\ opt.template_id = fill.template_id
            /\ opt.fill_value = fill.correct_answer
            /\ opt.option_type_id = option_type_id
    IN SelectSeq(Positions(schema.options),
                 LAMBDA x : Matches(schema.options[x]))

mc_num_distractors_up_to_max(config, n_distractors) ==
    Min(n_distractors, Min(config.max_distractors, config.total_options - 1))

\* src/exercises/generators.py MultipleChoiceGenerator.generate: num_distractors
mc_num_distractors(config, n_distractors) ==
    Max(Min(n_distractors,
            Min(config.max_distractors, config.total_options - 1)),
        Min(config.min_distractors, n_distractors))

\* src/exercises/generators.py FillBlankGenerator.generate: num_distractors
fb_num_distractors(config, n_distractors) ==
    Min(n_distractors, config.min_distractors)

\* seq[:n]
Take(seq, n) == SubSeq(seq, 1, Min(n, Len(seq)))

never_too_few(selected_options, num_wrong_needed) == FALSE

\* len(selected_options) < num_wrong_needed
too_few(selected_options, num_wrong_needed) ==
    Len(selected_options) < num_wrong_needed

index_of_head(seq, x) == 0

\* options.index(correct_answer)
correct_index_of(options, correct_answer) == index(options, correct_answer)

\* len([correct_answer] + selected_options[:total_options - 1])
OptionCount(selected_options, total) ==
    1 + Min(Len(selected_options), total - 1)

\* the orders random.shuffle(options) can leave, or the given order
Orders(n, shuffle_options) ==
    IF shuffle_options THEN Permutations(1..n) ELSE {[i \in 1..n |-> i]}

(***************************************************************************)
(* src/exercises/base.py: select_distractors.  An item is [id, tags]; the  *)
(* result is the set of lists the two random.shuffle calls can leave.      *)
(***************************************************************************)
every_tag(t) == TRUE

\* t.startswith("cluster:")
startswith_cluster(t) == t \in {"cluster:pronouns", "cluster:adjectives"}

\* [t for t in target_kp.tags if t.startswith("cluster:")]
cluster_tags(target_kp) == {t \in target_kp.tags : startswith_cluster(t)}

\* seq[:n]; a negative n counts from the end
Slice(seq, n) ==
    IF n >= 0 THEN Take(seq, n)
    ELSE IF Len(seq) + n <= 0 THEN <<>> ELSE SubSeq(seq, 1, Len(seq) + n)

\* the orders random.shuffle(list) can leave
Shuffles(list) ==
    {[i \in 1..Len(list) |-> list[order[i]]] :
        order \in Permutations(1..Len(list))}

select_distractors(target_kp, all_vocab, count) ==
    LET tags == cluster_tags(target_kp)
        first_pass ==
            SelectSeq(all_vocab,
                      LAMBDA kp : /\ kp.id # target_kp.id
                                  /\ \E t \in tags : t \in kp.tags)
        SecondPass(distractors) ==
            LET used_ids == {target_kp.id}
                            \cup {distractors[i].id : i \in DOMAIN distractors}
                remaining == count - Len(distractors)
                second_pass ==
                    SelectSeq(all_vocab, LAMBDA kp : kp.id \notin used_ids)
            IN IF remaining > 0
               THEN {distractors \o Slice(sh, remaining) :
                        sh \in Shuffles(second_pass)}
               ELSE {distractors}
    IN IF tags = {} THEN SecondPass(<<>>)
       ELSE UNION {SecondPass(Slice(sh, count)) : sh \in Shuffles(first_pass)}

NoExercise(op, total) ==
    [op |-> op, kind |-> "none", err |-> "none", options |-> <<>>,
     correct_index |-> -1, correct_answer |-> "", total |-> total,
     available |-> -1, avail_d |-> -1, placed_d |-> 0, placed_nd |-> 0]

\* the tail shared by both generators and the adapter: None when the wrong
\* answers are too few, else the exercise with the options in the order
\* random.shuffle left them (order is the identity without shuffling)
BuildExercise(op, correct_answer, selected_options, total, available, order) ==
    IF too_few(selected_options, total - 1)
    THEN [NoExercise(op, total) EXCEPT !.available = available,
                                       !.correct_answer = correct_answer]
    ELSE LET unshuffled == <<correct_answer>> \o Take(selected_options, total - 1)
             options == [i \in 1..Len(unshuffled) |-> unshuffled[order[i]]]
             ci == correct_index_of(options, correct_answer)
         IN [op |-> op, kind |-> "exercise",
             err |-> IF ci < 0 THEN "ValueError" ELSE "none",
             options |-> options, correct_index |-> ci,
             correct_answer |-> correct_answer, total |-> total,
             available |-> available, avail_d |-> -1, placed_d |-> 0,
             placed_nd |-> 0]

\* the exercise together with what went into its options: of the
\* n_distractors distractors available, the first sel_d selected options
\* are distractors and the next sel_nd are non-distractors, and
\* selected_options[:total_options - 1] is placed
Placed(ex, n_distractors, sel_d, sel_nd, total) ==
    IF ex.kind # "exercise" THEN ex
    ELSE [ex EXCEPT !.avail_d = n_distractors,
                    !.placed_d = Min(sel_d, total - 1),
                    !.placed_nd = Min(sel_d + sel_nd, total - 1)
                                  - Min(sel_d, total - 1)]

(***************************************************************************)
(* Reorder exercises: src/exercises/generic_handlers.py ReorderHandler and *)
(* src/exercises/segmented_translation.py.  A chunk is a list of           *)
(* characters; the user input is the list of its whitespace-separated      *)
(* tokens.                                                                 *)
(***************************************************************************)
Tokens == {"-1", "0", "1", "2", "3", "4", "x", "q"}

\* int(x): the number a token denotes; "x" and "q" are not numbers
\* (ValueError)
IsNumber(tok) == tok \notin {"x", "q"}

IntOf(tok) ==
    CASE tok = "-1" -> -1
      [] tok = "0" -> 0
      [] tok = "1" -> 1
      [] tok = "2" -> 2
      [] tok = "3" -> 3
      [] tok = "4" -> 4

\* list[k] of Python for a 0-based k: negative k counts from the end
InIndexRange(list, k) == k >= -Len(list) /\ k < Len(list)

PyIndex(list, k) == IF k >= 0 THEN list[k + 1] ELSE list[Len(list) + k + 1]

\* "".join(chunks)
Join(chunks) == Flatten(chunks)

\* [items[i] for i in order], order 0-based
Pick(items, order) == [i \in 1..Len(order) |-> items[order[i] + 1]]

check_answer_unshuffled(items, correct_order, shuffled_items, user_input) ==
    LET correct_answer == Join(Pick(items, correct_order))
    IN IF \E i \in DOMAIN user_input :
              ~IsNumber(user_input[i])
              \/ ~InIndexRange(items, IntOf(user_input[i]) - 1)
       THEN [is_correct |-> FALSE, correct_answer |-> correct_answer]
       ELSE [is_correct |->
                 Join([i \in 1..Len(user_input) |->
                          PyIndex(items, IntOf(user_input[i]) - 1)])
                 = correct_answer,
             correct_answer |-> correct_answer]

\* src/exercises/generic_handlers.py ReorderHandler.check_answer and
\* src/exercises/segmented_translation.py check_answer, from the point where
\* shuffled_items is known
check_answer(items, correct_order, shuffled_items, user_input) ==
    LET correct_answer == Join(Pick(items, correct_order))
    IN IF \E i \in DOMAIN user_input : ~IsNumber(user_input[i])
       THEN \* ValueError, caught
            [is_correct |-> FALSE, correct_answer |-> correct_answer]
       ELSE IF \E i \in DOMAIN user_input :
                  ~InIndexRange(shuffled_items, IntOf(user_input[i]) - 1)
            THEN \* IndexError, caught
                 [is_correct |-> FALSE, correct_answer |-> correct_answer]
            ELSE [is_correct |->
                      Join([i \in 1..Len(user_input) |->
                               PyIndex(shuffled_items,
                                       IntOf(user_input[i]) - 1)])
                      = correct_answer,
                  correct_answer |-> correct_answer]

(***************************************************************************)
(* Choice exercises: src/exercises/base.py parse_letter_input and the      *)
(* multiple-choice and fill-blank handlers of                              *)
(* src/exercises/generic_handlers.py.  The raw input is one string.        *)
(***************************************************************************)
\* raw inputs: letters in both cases, a letter in blanks, digits, a
\* two-digit number, a signed number, a non-number, the empty string, the
\* superscript two (a digit to str.isdigit, not a number to int) and the
\* quit command
ChoiceInputs ==
    {"A", "B", "D", "E", "F", "G", "a", "f", " b ", "0", "1", "2", "4", "6",
     "7", "12", "-1", "x", "", "sup2", "q", "Q"}

\* user_input.strip().upper()
strip_upper(user_input) ==
    CASE user_input = "a" -> "A"
      [] user_input = "f" -> "F"
      [] user_input = " b " -> "B"
      [] user_input = "q" -> "Q"
      [] OTHER -> user_input

\* user_input.lower()
lower(user_input) ==
    CASE user_input = "A" -> "a"
      [] user_input = "B" -> "b"
      [] user_input = "D" -> "d"
      [] user_input = "E" -> "e"
      [] user_input = "F" -> "f"
      [] user_input = "G" -> "g"
      [] user_input = "Q" -> "q"
      [] OTHER -> user_input

letter_map ==
    [l \in {"A", "B", "C", "D", "E", "F"} |->
        CASE l = "A" -> 0 [] l = "B" -> 1 [] l = "C" -> 2
          [] l = "D" -> 3 [] l = "E" -> 4 [] l = "F" -> 5]

\* str.isdigit()
isdigit(str) == str \in {"0", "1", "2", "4", "6", "7", "12", "sup2"}

\* int(str) raises ValueError
int_raises(str) == str \notin {"0", "1", "2", "4", "6", "7", "12", "-1"}

\* int(str) when it does not raise
int(str) ==
    CASE str = "0" -> 0
      [] str = "1" -> 1
      [] str = "2" -> 2
      [] str = "4" -> 4
      [] str = "6" -> 6
      [] str = "7" -> 7
      [] str = "12" -> 12
      [] str = "-1" -> -1

NoIndex == -1

\* a 0-based index, NoIndex for None, or the exception that escapes
parse_letter_input(user_input, max_options) ==
    LET u == strip_upper(user_input)
        Bounded(k) ==
            IF k < 0 \/ k >= max_options
            THEN [err |-> "none", index |-> NoIndex]
            ELSE [err |-> "none", index |-> k]
    IN IF u \in DOMAIN letter_map THEN Bounded(letter_map[u])
       ELSE IF isdigit(u)
            THEN IF int_raises(u)
                 THEN [err |-> "ValueError", index |-> NoIndex]
                 ELSE Bounded(int(u) - 1)
            ELSE [err |-> "none", index |-> NoIndex]

\* MultipleChoiceHandler.check_answer and FillBlankHandler.check_answer
choice_check_answer(options, correct_index, user_input) ==
    LET correct_answer == options[correct_index + 1]
        user_index == parse_letter_input(user_input, Len(options))
    IN IF user_index.err # "none"
       THEN [err |-> user_index.err, is_correct |-> FALSE,
             correct_answer |-> <<>>]
       ELSE IF user_index.index = NoIndex
            THEN [err |-> "none", is_correct |-> FALSE,
                  correct_answer |-> correct_answer]
            ELSE [err |-> "none",
                  is_correct |-> user_index.index = correct_index,
                  correct_answer |-> correct_answer]

(***************************************************************************)
(* State                                                                   *)
(***************************************************************************)
VARIABLES mastery, now, steps, result, graph, student, sresult, session, gen,
          exercise, handler, answer

vars == <<mastery, now, steps, result, graph, student, sresult, session, gen,
          exercise, handler, answer>>

\* the variables of a reorder handler: the handler with its exercise and its
\* stored shuffle, and the last answer checked
hvars == <<handler, answer>>

\* the variables of exercise synthesis
gvars == <<gen, exercise>>

\* the variables of the session scheduler
svars == <<graph, student, sresult, session>>

\* result: the last call made on the record, the error it raised, the value
\* it returned (ret for a number, flag for a boolean) and the time of the call.
NoResult == [op |-> "none", err |-> "none", ret |-> NoneRat, flag |-> FALSE,
             at |-> 0]

Half == <<1, 2>>
NearMastery == <<9, 10>>

ReviewedCard == [set |-> TRUE, stability |-> 2, due |-> 1, last_review |-> 0,
                 state |-> StateReview, step |-> NoStep]

\* Records as the mastery store or a caller can hand them to the engine.
InitMasteries ==
    {NewMastery(p, DefaultTransit, DefaultSlip, DefaultGuess, "bkt", NoCard) :
        p \in {Zero, NearMastery, One}}
    \cup {NewMastery(p, NoneRat, NoneRat, NoneRat, "bkt", NoCard) :
        p \in {NoneRat, Half}}
    \cup {NewMastery(NoneRat, NoneRat, NoneRat, NoneRat, "fsrs", c) :
        c \in {NoCard, ReviewedCard}}

\* the arguments of a call on the standalone functions: the item list, the
\* type served last and the item asked about
NoArgs == [kps |-> <<>>, last |-> "none", kp |-> ""]

NoQueue == [op |-> "none", queue |-> <<>>, at |-> 0, args |-> NoArgs,
            met |-> FALSE]

\* the session state of a new run: interleaved practice, no active cluster
NoTag == "none"

NoSession == [practice_mode |-> "interleaved", active_cluster_tag |-> NoTag]

Idle == NoExercise("none", 0)

\* no handler constructed; a constructed one has _shuffled_indices None
\* (shuffled FALSE) until get_options stores a shuffle
NoHandler == [kind |-> "none", items |-> <<>>, correct_order |-> <<>>,
              correct_index |-> -1,
              shuffled |-> FALSE, shuffled_indices |-> <<>>]

\* no call pending; the record of a call holds its arguments, the display
\* order it judged against and what it returned
NoAnswer == [op |-> "none", user_input |-> <<>>, shuffled_items |-> <<>>,
             err |-> "none", quit |-> FALSE, should_retry |-> FALSE,
             is_correct |-> FALSE, correct_answer |-> <<>>]

DefaultConfig ==
    [total_options |-> 4, min_distractors |-> 1, max_distractors |-> 3,
     shuffle_options |-> TRUE]

NoGen == [vocab |-> <<>>, config |-> DefaultConfig,
          mc |-> populate_multiple_choice(<<>>),
          fb |-> populate_fill_blank(<<>>, <<>>)]

\* Prerequisite lists of the knowledge points (KnowledgePoint.prerequisites)
Graphs ==
    {[k \in KpIds |-> <<>>],
     [k \in KpIds |-> IF k = "v002" THEN <<"v001">>
                       ELSE IF k = "v003" THEN <<"v002">> ELSE <<>>],
     [k \in KpIds |-> IF k = "v003" THEN <<"v001", "v002">> ELSE <<>>],
     [k \in KpIds |-> IF k = "v002" THEN <<UnknownId>>
                       ELSE IF k = "v003" THEN <<"v001">> ELSE <<>>]}

MasteredBkt ==
    NewMastery(One, DefaultTransit, DefaultSlip, DefaultGuess, "bkt", NoCard)

RetainedFsrs ==
    [NewMastery(One, DefaultTransit, DefaultSlip, DefaultGuess, "fsrs",
                ReviewedCard) EXCEPT !.transitioned_to_fsrs_at = 0]

EmptyStudent == [masteries |-> [k \in AllIds |-> FreshMastery], stored |-> {}]

\* Student states as loaded from the mastery store
InitStudents ==
    {[masteries |-> [k \in AllIds |->
                        IF k = "v001" THEN a ELSE IF k = "v002" THEN b
                        ELSE FreshMastery],
      stored |-> {k \in {"v001", "v002"} :
                     (k = "v001" /\ a # FreshMastery)
                     \/ (k = "v002" /\ b # FreshMastery)}] :
        a \in {FreshMastery, MasteredBkt, RetainedFsrs},
        b \in {FreshMastery, RetainedFsrs}}

Init ==
    /\ mastery \in InitMasteries
    /\ now = 0
    /\ steps = 0
    /\ result = NoResult
    /\ graph = [k \in KpIds |-> <<>>]
    /\ student = EmptyStudent
    /\ sresult = NoQueue
    /\ session = NoSession
    /\ gen = NoGen
    /\ exercise = Idle
    /\ handler = NoHandler
    /\ answer = NoAnswer

Apply(op, r) ==
    /\ steps < MaxSteps
    /\ steps' = steps + 1
    /\ mastery' = r.rec
    /\ result' = [op |-> op, err |-> r.err, ret |-> r.ret, flag |-> FALSE,
                  at |-> now]
    /\ UNCHANGED <<now, svars, gvars, hvars>>

Query(op, b) ==
    /\ steps < MaxSteps
    /\ steps' = steps + 1
    /\ result' = [op |-> op, err |-> "none", ret |-> NoneRat, flag |-> b,
                  at |-> now]
    /\ UNCHANGED <<mastery, now, svars, gvars, hvars>>

IsDue == Query("is_due", is_due(mastery, now))

IsFsrsDue == Query("is_fsrs_due", is_fsrs_due(mastery, now))

UpdateMastery ==
    \E correct \in BOOLEAN :
        Apply("update_mastery", update_mastery(mastery, correct, now))

UpdatePracticeStats ==
    \E correct \in BOOLEAN :
        Apply("update_practice_stats",
              Ok(update_practice_stats(mastery, correct, now), NoneRat))

CheckAndTransitionToFsrs ==
    Apply("check_and_transition_to_fsrs",
          Ok(check_and_transition_to_fsrs(mastery, now), NoneRat))

ProcessFsrsReview ==
    \E correct \in BOOLEAN :
        Apply("process_fsrs_review", process_fsrs_review(mastery, correct, now))

ProcessReview ==
    \E rating \in Ratings :
        Apply("process_review", process_review(mastery, rating, now))

InteractiveUpdate ==
    \E correct \in BOOLEAN :
        Apply("interactive_update", interactive_update(mastery, correct, now))

Tick ==
    /\ now < MaxTime
    /\ now' = now + 1
    /\ UNCHANGED <<mastery, steps, result, svars, gvars, hvars>>

Next ==
    \/ UpdateMastery
    \/ UpdatePracticeStats
    \/ CheckAndTransitionToFsrs
    \/ ProcessFsrsReview
    \/ ProcessReview
    \/ InteractiveUpdate
    \/ IsDue
    \/ IsFsrsDue
    \/ Tick

Spec == Init /\ [][Next]_vars

(***************************************************************************)
(* Learning-mode updates alone, from every prior and calibration triple of *)
(* a grid over the unit interval.                                          *)
(***************************************************************************)
Grid == {Zero, DefaultGuess, Half, One}

InitBKT ==
    /\ mastery \in {NewMastery(p, t, s, g, "bkt", NoCard) :
                       p \in Grid, t \in Grid, s \in Grid, g \in Grid}
    /\ now = 0
    /\ steps = 0
    /\ result = NoResult
    /\ graph = [k \in KpIds |-> <<>>]
    /\ student = EmptyStudent
    /\ sresult = NoQueue
    /\ session = NoSession
    /\ gen = NoGen
    /\ exercise = Idle
    /\ handler = NoHandler
    /\ answer = NoAnswer

NextBKT == UpdateMastery

SpecBKT == InitBKT /\ [][NextBKT]_vars

(***************************************************************************)
(* The session scheduler over a knowledge graph and a student state.       *)
(***************************************************************************)
SessionSizes == {NoSize, 0, 1, 2}

ExerciseKpLists == {<<"v001", "v002">>, <<"v002", UnknownId>>}

InitSched ==
    /\ mastery = FreshMastery
    /\ result = NoResult
    /\ now = 0
    /\ steps = 0
    /\ graph \in Graphs
    /\ student \in InitStudents
    /\ sresult = NoQueue
    /\ session = NoSession
    /\ gen = NoGen
    /\ exercise = Idle
    /\ handler = NoHandler
    /\ answer = NoAnswer

SchedStep(op, st, queue) ==
    /\ steps < MaxSchedSteps
    /\ steps' = steps + 1
    /\ student' = st
    /\ sresult' = [op |-> op, queue |-> queue, at |-> now, args |-> NoArgs,
                   met |-> FALSE]
    /\ UNCHANGED <<mastery, result, now, graph, session, gvars, hvars>>

ComposeSessionQueue ==
    \E size \in SessionSizes :
        LET r == compose_session_queue(graph, student, size, now)
        IN SchedStep("compose_session_queue", r.st, r.queue)

UpdateMultiSkillExercise ==
    \E kp_ids \in ExerciseKpLists, is_correct \in BOOLEAN :
        SchedStep("update_multi_skill_exercise",
                  update_multi_skill_exercise(student, kp_ids, 1, is_correct,
                                              now),
                  <<>>)

InteractiveUpdates ==
    \E kp_ids \in ExerciseKpLists, is_correct \in BOOLEAN :
        SchedStep("interactive_updates",
                  interactive_updates(graph, student, kp_ids, 1, is_correct,
                                      now),
                  <<>>)

SchedTick ==
    /\ now < MaxSchedTime
    /\ now' = now + 1
    /\ UNCHANGED <<mastery, steps, result, svars, gvars, hvars>>

NextSched ==
    \/ ComposeSessionQueue
    \/ UpdateMultiSkillExercise
    \/ InteractiveUpdates
    \/ SchedTick

SpecSched == InitSched /\ [][NextSched]_vars

(***************************************************************************)
(* Exercise synthesis over a vocabulary and a generator configuration.     *)
(***************************************************************************)
ItemIds == <<"v001", "v002", "v003", "v004">>
Hanzi == <<"wo", "ni", "ta", "hao">>
Glosses == <<"I", "you", "he", "good">>

\* n items; with share the second item has the first gloss of the first one;
\* the first k items carry the same cluster tag, the others none
Vocabulary(n, share, k) ==
    [i \in 1..n |->
        [id |-> ItemIds[i], chinese |-> Hanzi[i],
         english |-> IF share /\ i = 2 THEN Glosses[1] ELSE Glosses[i],
         cluster |-> IF i <= k THEN "cluster:pronouns" ELSE ""]]

Vocabularies ==
    {Vocabulary(n, share, k) : n \in {2, 3, 4}, share \in BOOLEAN,
                               k \in {0, 2, 4}}

Configs ==
    {[total_options |-> t, min_distractors |-> d[1], max_distractors |-> d[2],
      shuffle_options |-> sh] :
        t \in {2, 3}, d \in {<<1, 3>>, <<1, 2>>, <<3, 1>>, <<0, 0>>}, sh \in BOOLEAN}

\* one cloze template per item, a second one for the first item, and one
\* whose target is not in the vocabulary
ClozeTemplates(vocab) ==
    [t \in 1..Len(vocab) |-> [id |-> t, target_vocab_id |-> vocab[t].id]]
    \o <<[id |-> Len(vocab) + 1, target_vocab_id |-> vocab[1].id],
         [id |-> Len(vocab) + 2, target_vocab_id |-> "v999"]>>

InitGen ==
    /\ mastery = FreshMastery
    /\ result = NoResult
    /\ now = 0
    /\ steps = 0
    /\ graph = [k \in KpIds |-> <<>>]
    /\ student = EmptyStudent
    /\ sresult = NoQueue
    /\ session = NoSession
    /\ \E vocab \in Vocabularies, config \in Configs :
          gen = [vocab |-> vocab, config |-> config,
                 mc |-> populate_multiple_choice(vocab),
                 fb |-> populate_fill_blank(vocab, ClozeTemplates(vocab))]
    /\ exercise = Idle
    /\ handler = NoHandler
    /\ answer = NoAnswer

Targets == {"", "v001", "v999"}

PromptTypeChoices == {"", "chinese_to_english", "english_to_chinese"}

Produce(ex) ==
    /\ exercise' = ex
    /\ UNCHANGED <<mastery, now, steps, result, svars, gen, hvars>>

\* the wrong answers both generators select: num_distractors distractors in
\* shuffled order, then non-distractors for the remaining slots
SelectedOptions(options, d_order, n_order) ==
    [i \in 1..Len(d_order) |-> options[d_order[i]].option_value]
    \o [i \in 1..Len(n_order) |-> options[n_order[i]].option_value]

RemainingSlots(nondistractors, num_distractors, total) ==
    IF (total - 1) - num_distractors > 0
    THEN Min((total - 1) - num_distractors, Len(nondistractors))
    ELSE 0

\* src/exercises/generators.py: MultipleChoiceGenerator.generate
GenerateMultipleChoice ==
    /\ exercise = Idle
    /\ \E target_kp_id \in Targets, prompt_type_id \in PromptTypeChoices :
        LET candidates == mc_candidates(gen.mc, target_kp_id, prompt_type_id)
            total == gen.config.total_options
        IN IF candidates = <<>>
           THEN Produce(NoExercise("mc_generate", total))
           ELSE \E pick \in Range(candidates) :
                LET pv == gen.mc.prompt_values[pick]
                    d == mc_available_options(gen.mc, pv, "distractor")
                    nd == mc_available_options(gen.mc, pv, "nondistractor")
                    num_d == mc_num_distractors(gen.config, Len(d))
                IN IF pv.prompt_type_id \notin PromptTypeIds
                   THEN Produce(NoExercise("mc_generate", total))
                   ELSE \E d_order \in Arrangements(d, num_d),
                           n_order \in Arrangements(nd,
                                          RemainingSlots(nd, num_d, total)) :
                        LET selected == SelectedOptions(gen.mc.options, d_order,
                                                        n_order)
                        IN \E order \in Orders(OptionCount(selected, total),
                                               gen.config.shuffle_options) :
                              Produce(Placed(
                                  BuildExercise("mc_generate",
                                      pv.correct_answer, selected, total,
                                      Len(d) + Len(nd), order),
                                  Len(d), Len(d_order), Len(n_order), total))

\* src/exercises/generators.py: FillBlankGenerator.generate
GenerateFillBlank ==
    /\ exercise = Idle
    /\ \E target_kp_id \in Targets :
        LET candidates == fb_candidates(gen.fb, target_kp_id)
            total == gen.config.total_options
        IN IF candidates = <<>>
           THEN Produce(NoExercise("fb_generate", total))
           ELSE \E pick \in Range(candidates) :
                LET fill == gen.fb.fills[pick]
                    d == fb_available_options(gen.fb, fill, "distractor")
                    nd == fb_available_options(gen.fb, fill, "nondistractor")
                    num_d == fb_num_distractors(gen.config, Len(d))
                IN \E d_order \in Arrangements(d, num_d),
                      n_order \in Arrangements(nd,
                                     RemainingSlots(nd, num_d, total)) :
                   LET selected == SelectedOptions(gen.fb.options, d_order,
                                                   n_order)
                   IN \E order \in Orders(OptionCount(selected, total),
                                          gen.config.shuffle_options) :
                         Produce(Placed(
                             BuildExercise("fb_generate",
                                 fill.correct_answer, selected, total,
                                 Len(d) + Len(nd), order),
                             Len(d), Len(d_order), Len(n_order), total))

\* src/exercises/base.py select_distractors: first pass, the other items of
\* the target's cluster
same_cluster(target_kp, all_vocab) ==
    IF target_kp.cluster = "" THEN <<>>
    ELSE LET Matches(kp) ==
                 kp.id # target_kp.id /\ is_same_cluster(target_kp, kp)
         IN SelectSeq(Positions(all_vocab), LAMBDA x : Matches(all_vocab[x]))

\* src/exercises/base.py select_distractors: second pass, the items not used
other_vocab(target_kp, all_vocab, chosen) ==
    LET used_ids == {target_kp.id}
                    \cup {all_vocab[chosen[i]].id : i \in DOMAIN chosen}
    IN SelectSeq(Positions(all_vocab), LAMBDA x : all_vocab[x].id \notin used_ids)

\* src/exercises/chinese_adapter.py: create_chinese_to_english
CreateChineseToEnglish ==
    /\ exercise = Idle
    /\ \E with_target \in BOOLEAN :
        IF Len(gen.vocab) < 4
        THEN Produce([NoExercise("create_chinese_to_english", 4)
                         EXCEPT !.available = Len(gen.vocab) - 1])
        ELSE \E pick \in (IF with_target THEN {1} ELSE DOMAIN gen.vocab) :
             LET selected == gen.vocab[pick]
                 same == same_cluster(selected, gen.vocab)
             IN \E first \in Arrangements(same, Min(3, Len(same))) :
                LET other == other_vocab(selected, gen.vocab, first)
                    remaining == 3 - Len(first)
                IN \E second \in Arrangements(other,
                                    IF remaining > 0
                                    THEN Min(remaining, Len(other)) ELSE 0) :
                   LET distractors == first \o second
                       correct_english == selected.english
                       unshuffled ==
                           <<correct_english>>
                           \o [i \in 1..Len(distractors) |->
                                  gen.vocab[distractors[i]].english]
                   IN IF Len(distractors) < 3
                      THEN Produce([NoExercise("create_chinese_to_english", 4)
                                       EXCEPT !.available = Len(gen.vocab) - 1])
                      ELSE \E order \in Orders(Len(unshuffled), TRUE) :
                           LET options == [i \in 1..Len(unshuffled) |->
                                              unshuffled[order[i]]]
                               ci == correct_index_of(options, correct_english)
                           IN Produce(
                                [op |-> "create_chinese_to_english",
                                 kind |-> "exercise",
                                 err |-> IF ci < 0 THEN "ValueError"
                                         ELSE "none",
                                 options |-> options, correct_index |-> ci,
                                 correct_answer |-> correct_english,
                                 total |-> 4,
                                 available |-> Len(gen.vocab) - 1,
                                 avail_d |-> -1, placed_d |-> 0,
                                 placed_nd |-> 0])

\* the exercise is handed to the caller and the generator is called again
Discard ==
    /\ exercise # Idle
    /\ exercise' = Idle
    /\ UNCHANGED <<mastery, now, steps, result, svars, gen, hvars>>

NextGen ==
    \/ GenerateMultipleChoice
    \/ GenerateFillBlank
    \/ CreateChineseToEnglish
    \/ Discard

SpecGen == InitGen /\ [][NextGen]_vars

(***************************************************************************)
(* Distractor selection over a tagged vocabulary.                          *)
(***************************************************************************)
TagSets ==
    {{}, {"hsk1"}, {"cluster:pronouns", "hsk1"}, {"cluster:adjectives"},
     {"cluster:pronouns", "cluster:adjectives"}}

TaggedVocabularies ==
    {[i \in 1..4 |-> [id |-> ItemIds[i], tags |-> tags[i]]] :
        tags \in [1..4 -> TagSets]}

Counts == {-1, 0, 1, 2, 3}

InitDistractors ==
    /\ mastery = FreshMastery
    /\ result = NoResult
    /\ now = 0
    /\ steps = 0
    /\ graph = [k \in KpIds |-> <<>>]
    /\ student = EmptyStudent
    /\ sresult = NoQueue
    /\ session = NoSession
    /\ \E vocab \in TaggedVocabularies : gen = [NoGen EXCEPT !.vocab = vocab]
    /\ exercise = Idle
    /\ handler = NoHandler
    /\ answer = NoAnswer

SelectDistractors ==
    /\ exercise = Idle
    /\ \E target_kp \in Range(gen.vocab), count \in Counts :
          \E distractors \in select_distractors(target_kp, gen.vocab, count) :
             Produce([op |-> "select_distractors", kind |-> "distractors",
                      target_kp |-> target_kp, count |-> count,
                      distractors |-> distractors])

NextDistractors == SelectDistractors \/ Discard

SpecDistractors == InitDistractors /\ [][NextDistractors]_vars

(***************************************************************************)
(* Calls on the prerequisite checks and on the selection of the next item  *)
(* as time passes; each call seeds the records it reads.                   *)
(***************************************************************************)
KpLists == {KpOrder, <<"v003", "v002", "v001">>, <<"v002", "v003">>, <<>>}

LastTypes == {"none", "vocabulary", "grammar"}

SelectStep(op, st, queue, args, met) ==
    /\ steps < MaxSchedSteps
    /\ steps' = steps + 1
    /\ student' = st
    /\ sresult' = [op |-> op, queue |-> queue, at |-> now, args |-> args,
                   met |-> met]
    /\ UNCHANGED <<mastery, result, now, graph, session, gvars, hvars>>

PrerequisitesMet ==
    \E kps \in KpLists :
        \E kp \in Range(kps) :
            LET r == prerequisites_met(graph, student, kp, Range(kps), now)
            IN SelectStep("prerequisites_met", r.st, <<>>,
                          [kps |-> kps, last |-> "none", kp |-> kp], r.met)

SchedulerPrerequisitesMet ==
    \E kp \in AllIds :
        LET r == scheduler_prerequisites_met(graph, student, kp, now)
        IN SelectStep("_prerequisites_met", r.st, <<>>,
                      [kps |-> KpOrder, last |-> "none", kp |-> kp], r.met)

SelectNextKnowledgePoint ==
    \E kps \in KpLists, last \in LastTypes :
        LET r == select_next_knowledge_point(graph, student, kps, last, now)
        IN SelectStep("select_next_knowledge_point", r.st,
                      IF r.kp = "" THEN <<>> ELSE <<r.kp>>,
                      [kps |-> kps, last |-> last, kp |-> ""], FALSE)

NextSelect ==
    \/ PrerequisitesMet
    \/ SchedulerPrerequisitesMet
    \/ SelectNextKnowledgePoint
    \/ SchedTick

\* the knowledge bases of the scheduler other than the plain chain, and one
\* whose prerequisite lists form a cycle (nothing in the loading of the
\* knowledge base forbids it)
SelectGraphs ==
    {g \in Graphs : g["v003"] # <<"v002">>}
    \cup {[k \in KpIds |-> IF k = "v002" THEN <<"v003">> ELSE <<"v002">>]}

InitSelect ==
    /\ mastery = FreshMastery
    /\ result = NoResult
    /\ now = 0
    /\ steps = 0
    /\ graph \in SelectGraphs
    /\ student \in InitStudents
    /\ sresult = NoQueue
    /\ session = NoSession
    /\ gen = NoGen
    /\ exercise = Idle
    /\ handler = NoHandler
    /\ answer = NoAnswer

SpecSelect == InitSelect /\ [][NextSelect]_vars

(***************************************************************************)
(* One fresh learning-mode record answered again and again.                *)
(***************************************************************************)
InitStreak ==
    /\ mastery = FreshMastery
    /\ now = 0
    /\ steps = 0
    /\ result = NoResult
    /\ graph = [k \in KpIds |-> <<>>]
    /\ student = EmptyStudent
    /\ sresult = NoQueue
    /\ session = NoSession
    /\ gen = NoGen
    /\ exercise = Idle
    /\ handler = NoHandler
    /\ answer = NoAnswer

NextStreak ==
    \/ UpdateMastery
    \/ UpdatePracticeStats
    \/ Tick

SpecStreak == InitStreak /\ [][NextStreak]_vars

\* src/tests/test_bkt.py test_learning_progression: one more correct answer
CorrectAnswer ==
    Apply("update_mastery", update_mastery(mastery, TRUE, now))

\* The session goes on: time passes, and a correct answer that can be
\* recorded is recorded.  The second conjunct is WF_vars(CorrectAnswer)
\* written out, ENABLED <<CorrectAnswer>>_vars being steps < MaxSteps.
SpecLearn ==
    /\ InitStreak /\ [][NextStreak]_vars
    /\ WF_vars(Tick)
    /\ ([]<>(steps >= MaxSteps) \/ []<><<CorrectAnswer>>_vars)

(***************************************************************************)
(* Reorder handlers: a handler is constructed around an exercise whose     *)
(* chunks come in the correct order (correct_order is 0, 1, 2, ...), the   *)
(* caller displays the options, passes an input to a check and takes the   *)
(* returned result.                                                        *)
(***************************************************************************)
MaxInputLen == 3

Ta == <<"ta1">>
Shi == <<"shi4">>
LaoShi == <<"lao3", "shi1">>
Hao == <<"hao3">>
HaoHao == <<"hao3", "hao3">>
Ni == <<"ni3">>

ChunkLists == {<<Ta, Shi, LaoShi>>, <<Hao, HaoHao>>, <<Ni, Hao>>}

HandlerKinds == {"reorder", "segmented"}

Handlers ==
    {[kind |-> k, items |-> c, correct_order |-> [i \in 1..Len(c) |-> i - 1],
      correct_index |-> -1, shuffled |-> FALSE, shuffled_indices |-> <<>>] :
        k \in HandlerKinds, c \in ChunkLists}

\* the outcomes of random.shuffle(list(range(n)))
ShuffledIndices(n) == {[i \in 1..n |-> p[i] - 1] : p \in Permutations(1..n)}

\* the shuffles a call can draw: one when it draws none
ShuffleChoices(h, draws) ==
    IF draws /\ ~h.shuffled THEN ShuffledIndices(Len(h.items))
    ELSE {[i \in 1..Len(h.items) |-> i - 1]}

\* user_input.split() for inputs of at most MaxInputLen tokens
UserInputs == UNION {[1..k -> Tokens] : k \in 0..MaxInputLen}

\* the context argument: None (or an empty list, equally false) or the
\* chunks in an order in which present() displayed them
Contexts(items) ==
    {<<>>} \cup {Pick(items, o) : o \in ShuffledIndices(Len(items))}

get_options(h, order) ==
    LET h2 == IF h.shuffled THEN h
              ELSE [h EXCEPT !.shuffled = TRUE, !.shuffled_indices = order]
    IN [handler |-> h2, options |-> Pick(h2.items, h2.shuffled_indices)]

InitReorder ==
    /\ mastery = FreshMastery
    /\ result = NoResult
    /\ now = 0
    /\ steps = 0
    /\ graph = [k \in KpIds |-> <<>>]
    /\ student = EmptyStudent
    /\ sresult = NoQueue
    /\ session = NoSession
    /\ gen = NoGen
    /\ exercise = Idle
    /\ handler \in Handlers
    /\ answer = NoAnswer

Returned(h, a) ==
    /\ handler' = h
    /\ answer' = a
    /\ UNCHANGED <<mastery, now, steps, result, svars, gvars>>

GetOptions ==
    /\ handler.kind \in HandlerKinds
    /\ answer = NoAnswer
    /\ \E order \in ShuffleChoices(handler, TRUE) :
          LET r == get_options(handler, order)
          IN Returned(r.handler,
                      [NoAnswer EXCEPT !.op = "get_options",
                                       !.shuffled_items = r.options])

ReorderCheckAnswer ==
    /\ handler.kind = "reorder"
    /\ answer = NoAnswer
    /\ \E user_input \in UserInputs, context \in Contexts(handler.items) :
          \E order \in ShuffleChoices(handler, context = <<>>) :
             LET r == IF context # <<>>
                      THEN [handler |-> handler, options |-> context]
                      ELSE get_options(handler, order)
                 c == check_answer(handler.items, handler.correct_order,
                                   r.options, user_input)
             IN Returned(r.handler,
                         [op |-> "check_answer", user_input |-> user_input,
                          shuffled_items |-> r.options,
                          err |-> "none",
                          quit |-> FALSE,
                          should_retry |-> FALSE,
                          is_correct |-> c.is_correct,
                          correct_answer |-> c.correct_answer])

SegmentedCheckAnswer ==
    /\ handler.kind = "segmented"
    /\ answer = NoAnswer
    /\ \E user_input \in UserInputs, context \in Contexts(handler.items) :
          LET shuffled_chunks == IF context # <<>> THEN context
                                 ELSE handler.items
              c == check_answer(handler.items, handler.correct_order,
                                shuffled_chunks, user_input)
          IN Returned(handler,
                      [op |-> "check_answer", user_input |-> user_input,
                       shuffled_items |-> shuffled_chunks,
                       err |-> "none",
                       quit |-> FALSE,
                       should_retry |-> FALSE,
                       is_correct |-> c.is_correct,
                       correct_answer |-> c.correct_answer])

ProcessUserInputWithInput ==
    /\ handler.kind \in HandlerKinds
    /\ answer = NoAnswer
    /\ \E user_input \in UserInputs :
          \E order \in ShuffleChoices(handler, TRUE) :
             LET r == get_options(handler, order)
                 c == check_answer(handler.items, handler.correct_order,
                                   r.options, user_input)
             IN IF user_input = <<"q">>
                THEN Returned(r.handler,
                              [NoAnswer EXCEPT !.op = "process_user_input",
                                               !.user_input = user_input,
                                               !.shuffled_items = r.options,
                                               !.quit = TRUE])
                ELSE IF \E i \in DOMAIN user_input : ~IsNumber(user_input[i])
                THEN Returned(r.handler,
                              [op |-> "process_user_input",
                               user_input |-> user_input,
                               shuffled_items |-> r.options,
                               err |-> "none",
                               quit |-> FALSE,
                               should_retry |-> TRUE,
                               is_correct |-> FALSE,
                               correct_answer |-> <<>>])
                ELSE Returned(r.handler,
                              [op |-> "process_user_input",
                               user_input |-> user_input,
                               shuffled_items |-> r.options,
                               err |-> "none",
                               quit |-> FALSE,
                               should_retry |-> FALSE,
                               is_correct |-> c.is_correct,
                               correct_answer |-> c.correct_answer])

\* the caller takes the result
TakeResult ==
    /\ answer # NoAnswer
    /\ answer' = NoAnswer
    /\ UNCHANGED <<mastery, now, steps, result, svars, gvars, handler>>

NextReorder ==
    \/ GetOptions
    \/ ReorderCheckAnswer
    \/ SegmentedCheckAnswer
    \/ ProcessUserInputWithInput
    \/ TakeResult

SpecReorder == InitReorder /\ [][NextReorder]_vars

(***************************************************************************)
(* Choice handlers: a multiple-choice or fill-blank handler around an      *)
(* exercise with n options and a correct index; and all handlers together. *)
(***************************************************************************)
ChoiceKinds == {"multiple_choice", "fill_blank"}

OptionLists ==
    {<<Ta, Ni>>, <<Ta, Ni, Shi, Hao>>, <<Ta, Ni, Shi, Hao, LaoShi, HaoHao>>}

ChoiceHandlers ==
    UNION {{[kind |-> k, items |-> o, correct_order |-> <<>>,
             correct_index |-> c, shuffled |-> FALSE,
             shuffled_indices |-> <<>>] : c \in 0..(Len(o) - 1)} :
              k \in ChoiceKinds, o \in OptionLists}

ChoiceCheckAnswer ==
    /\ handler.kind \in ChoiceKinds
    /\ answer = NoAnswer
    /\ \E user_input \in ChoiceInputs :
          LET c == choice_check_answer(handler.items, handler.correct_index,
                                       user_input)
          IN Returned(handler,
                      [op |-> "check_answer", user_input |-> <<user_input>>,
                       shuffled_items |-> handler.items,
                       err |-> c.err,
                       quit |-> FALSE,
                       should_retry |-> FALSE,
                       is_correct |-> c.is_correct,
                       correct_answer |-> c.correct_answer])

\* GenericExerciseHandler.process_user_input_with_input, inherited by both
\* choice handlers
ChoiceProcessUserInputWithInput ==
    /\ handler.kind \in ChoiceKinds
    /\ answer = NoAnswer
    /\ \E user_input \in ChoiceInputs :
          LET c == choice_check_answer(handler.items, handler.correct_index,
                                       user_input)
          IN IF lower(user_input) = "q"
             THEN Returned(handler,
                           [NoAnswer EXCEPT !.op = "process_user_input",
                                            !.user_input = <<user_input>>,
                                            !.shuffled_items = handler.items,
                                            !.quit = TRUE])
             ELSE Returned(handler,
                           [op |-> "process_user_input",
                            user_input |-> <<user_input>>,
                            shuffled_items |-> handler.items,
                            err |-> c.err,
                            quit |-> FALSE,
                            should_retry |-> FALSE,
                            is_correct |-> c.is_correct,
                            correct_answer |-> c.correct_answer])

InitHandlers ==
    /\ mastery = FreshMastery
    /\ result = NoResult
    /\ now = 0
    /\ steps = 0
    /\ graph = [k \in KpIds |-> <<>>]
    /\ student = EmptyStudent
    /\ sresult = NoQueue
    /\ session = NoSession
    /\ gen = NoGen
    /\ exercise = Idle
    /\ handler \in Handlers \cup ChoiceHandlers
    /\ answer = NoAnswer

NextHandlers ==
    \/ NextReorder
    \/ ChoiceCheckAnswer
    \/ ChoiceProcessUserInputWithInput

SpecHandlers == InitHandlers /\ [][NextHandlers]_vars

(***************************************************************************)
(* Properties of the mastery record                                        *)
(***************************************************************************)

\* C1: over any sequence of operations on one record, the mode never goes
\* back from retention (fsrs) to learning (bkt), and the record moves from
\* learning to retention only at a point where its knowledge probability has
\* reached the mastery threshold.
C1Original ==
    [][/\ (mastery.scheduling_mode = "fsrs"
              => mastery'.scheduling_mode = "fsrs")
       /\ (/\ mastery.scheduling_mode = "bkt"
           /\ mastery'.scheduling_mode = "fsrs"
           /\ ~IsNone(mastery'.p_known))
              => RLeq(MASTERY_THRESHOLD, mastery'.p_known)]_vars

\* C2: from every prior and calibration triple in [0,1] and after every
\* sequence of observations, the probability that update_mastery stores in
\* p_known and the value it returns lie in [0,1].
C2Bounded ==
    /\ ~IsNone(mastery.p_known) => InUnit(mastery.p_known)
    /\ (result.op = "update_mastery" /\ result.err = "none")
          => (InUnit(result.ret) /\ result.ret = mastery.p_known)

C2Witness ==
    /\ result.op = "update_mastery"
    /\ steps >= 2
    /\ RLt(Zero, mastery.p_known)
    /\ RLt(mastery.p_known, One)
    /\ RLt(Zero, mastery.p_transit)

\* C7: a review (process_fsrs_review or StudentMastery.process_review) of a
\* record whose memory state is not initialized raises an error and leaves
\* the record as it was.
C7Original ==
    [][(/\ steps' = steps + 1
        /\ result'.op \in {"process_fsrs_review", "process_review"}
        /\ ~mastery.fsrs_state.set)
          => (result'.err # "none" /\ mastery' = mastery)]_vars

\* C8 as stated: is_due and is_fsrs_due answer true when the due timestamp is
\* unset, and otherwise exactly when the due timestamp is at or before now.
C8Original ==
    /\ result.op = "is_due"
          => result.flag = (due_date(mastery) = NoTime
                            \/ due_date(mastery) <= result.at)
    /\ result.op = "is_fsrs_due"
          => result.flag = (get_fsrs_due_date(mastery) = NoTime
                            \/ get_fsrs_due_date(mastery) <= result.at)

\* C8: is_due and is_fsrs_due answer false when the due timestamp is unset,
\* and otherwise true exactly when the due timestamp is at or before now.
C8Amended ==
    /\ result.op = "is_due"
          => result.flag = (due_date(mastery) # NoTime
                            /\ due_date(mastery) <= result.at)
    /\ result.op = "is_fsrs_due"
          => result.flag = (get_fsrs_due_date(mastery) # NoTime
                            /\ get_fsrs_due_date(mastery) <= result.at)

C8Witness ==
    /\ result.op = "is_due"
    /\ due_date(mastery) = NoTime
    /\ ~result.flag

AllPrerequisitesMastered(g, st, kp_id) ==
    /\ kp_id \in DOMAIN g
    /\ \A i \in 1..Len(g[kp_id]) : is_mastered(st.masteries[g[kp_id][i]])

\* C3: every item id that compose_session_queue returns is a known item
\* whose prerequisites are all mastered at the time of the call, in the
\* student state the call started from and in the one it leaves.
C3QueueMeetsPrerequisites ==
    [][(steps' = steps + 1 /\ sresult'.op = "compose_session_queue")
          => \A i \in 1..Len(sresult'.queue) :
                /\ AllPrerequisitesMastered(graph, student, sresult'.queue[i])
                /\ AllPrerequisitesMastered(graph, student',
                                            sresult'.queue[i])]_vars

C3Witness ==
    /\ sresult.op = "compose_session_queue"
    /\ \E i \in 1..Len(sresult.queue) : graph[sresult.queue[i]] # <<>>
    /\ \E k \in KpIds : \E j \in 1..Len(graph[k]) :
          ~is_mastered(student.masteries[graph[k][j]])

(***************************************************************************)
(* Properties of exercise synthesis                                        *)
(***************************************************************************)
NoDuplicates(seq) == \A i, j \in DOMAIN seq : i # j => seq[i] # seq[j]

\* C4: every choice exercise that generation returns has exactly
\* total_options option entries and no two of its option entries are equal.
C4Original ==
    exercise.kind = "exercise"
        => (Len(exercise.options) = exercise.total
            /\ NoDuplicates(exercise.options))

\* C5: in every generated choice exercise, with or without shuffling,
\* correct_index is a valid 0-based position in options and the option at
\* that position is the intended correct answer of the selected prompt.
C5CorrectIndex ==
    exercise.kind = "exercise"
        => /\ exercise.err = "none"
           /\ exercise.correct_index \in 0..(Len(exercise.options) - 1)
           /\ exercise.options[exercise.correct_index + 1]
                 = exercise.correct_answer

C5Witness ==
    /\ exercise.kind = "exercise"
    /\ gen.config.shuffle_options
    /\ exercise.correct_index > 0
    /\ exercise.op \in {"mc_generate", "fb_generate"}

\* C9: whenever the content offers fewer wrong-answer entries for the chosen
\* target than the total_options - 1 that are needed, generation returns no
\* exercise and raises no exception.
C9NoExerciseWhenShort ==
    (exercise.op # "none" /\ exercise.available >= 0
     /\ exercise.available < exercise.total - 1)
        => (exercise.kind = "none" /\ exercise.err = "none")

C9Witness ==
    /\ exercise.op = "mc_generate"
    /\ exercise.kind = "none"
    /\ exercise.available >= 0
    /\ exercise.available < exercise.total - 1
    /\ Len(gen.vocab) = 2

(***************************************************************************)
(* Properties of reorder answer checking                                   *)
(***************************************************************************)
\* the answer on record was judged by a check, and every token of its input
\* is a 1-based position of the display it was judged against
JudgedPositions ==
    /\ answer.op \in {"check_answer", "process_user_input"}
    /\ \A i \in DOMAIN answer.user_input :
          /\ IsNumber(answer.user_input[i])
          /\ IntOf(answer.user_input[i]) \in 1..Len(answer.shuffled_items)

\* the displayed chunks at the submitted positions, in the submitted order
SubmittedChunks ==
    [i \in 1..Len(answer.user_input) |->
        answer.shuffled_items[IntOf(answer.user_input[i])]]

CanonicalChunks == Pick(handler.items, handler.correct_order)

\* the example: canonical order ta / shi / laoshi displayed as 1 = shi,
\* 2 = laoshi, 3 = ta; "3 1 2" is judged correct and "1 2 3" incorrect
C6Example ==
    (/\ JudgedPositions
     /\ handler.items = <<Ta, Shi, LaoShi>>
     /\ answer.shuffled_items = <<Shi, LaoShi, Ta>>)
    => /\ answer.user_input = <<"3", "1", "2">> => answer.is_correct
       /\ answer.user_input = <<"1", "2", "3">> => ~answer.is_correct

\* C6 (as stated): a submitted sequence of 1-based display positions is
\* judged correct exactly when the chunks at those positions, in the
\* submitted order, are the canonical chunk order; and the example holds.
C6Original ==
    /\ JudgedPositions
         => (answer.is_correct <=> SubmittedChunks = CanonicalChunks)
    /\ C6Example

\* C6 (amended): a submitted sequence of 1-based display positions is judged
\* correct exactly when the chunks at those positions, joined in the
\* submitted order, spell the sentence that the canonical chunk order
\* spells; and the example holds.
C6Amended ==
    /\ JudgedPositions
         => (answer.is_correct <=> Join(SubmittedChunks) = Join(CanonicalChunks))
    /\ C6Example

\* the example's display, answered "3 1 2" and judged correct
C6Witness ==
    /\ answer.op = "check_answer"
    /\ handler.items = <<Ta, Shi, LaoShi>>
    /\ answer.shuffled_items = <<Shi, LaoShi, Ta>>
    /\ answer.user_input = <<"3", "1", "2">>
    /\ answer.is_correct

(***************************************************************************)
(* Properties of input handling                                            *)
(***************************************************************************)
\* the input handed to process_user_input_with_input is neither the quit
\* command nor parsable: for a choice handler it is no letter A-F and int
\* rejects it, for a reorder handler some token is no number
Unparsable ==
    /\ answer.op = "process_user_input"
    /\ ~answer.quit
    /\ IF handler.kind \in ChoiceKinds
       THEN LET u == strip_upper(answer.user_input[1])
            IN u \notin DOMAIN letter_map /\ int_raises(u)
       ELSE \E i \in DOMAIN answer.user_input :
               ~IsNumber(answer.user_input[i])

\* C11 (as stated): in every family an input that cannot be parsed as a
\* letter or number is resolved to "incorrect" together with the retry
\* signal, and no exception reaches the caller.
C11Original ==
    Unparsable => /\ answer.err = "none"
                  /\ ~answer.is_correct
                  /\ answer.should_retry

\* the index a choice input names: the k-th letter and the digit k name
\* k - 1; NoIndex for every other input
NamedIndex(user_input) ==
    LET u == strip_upper(user_input)
    IN IF u \in DOMAIN letter_map THEN letter_map[u]
       ELSE IF ~int_raises(u) /\ int(u) >= 1 THEN int(u) - 1
       ELSE NoIndex

ChoiceJudged ==
    /\ handler.kind \in ChoiceKinds
    /\ answer.op = "check_answer"

\* C19 (as stated): check_answer of a choice exercise with n options judges
\* an input correct exactly when it is a letter A-F in either case or a
\* 1-based digit whose index k - 1 is below n and equals correct_index;
\* every other input is judged incorrect.
C19Original ==
    ChoiceJudged =>
        /\ answer.err = "none"
        /\ answer.is_correct <=>
              /\ NamedIndex(answer.user_input[1]) # NoIndex
              /\ NamedIndex(answer.user_input[1]) < Len(handler.items)
              /\ NamedIndex(answer.user_input[1]) = handler.correct_index

(***************************************************************************)
(* Properties of the learning-mode update                                  *)
(***************************************************************************)
\* C12: from a fresh learning-mode record, every update_mastery with a
\* correct answer stores a knowledge probability greater than or equal to
\* the one before it, whatever number of answers came before.
C12Monotone ==
    [][(/\ steps' = steps + 1
        /\ result'.op = "update_mastery"
        /\ mastery' = update_mastery(mastery, TRUE, now).rec)
          => RLeq(mastery.p_known, mastery'.p_known)]_vars

\* the record after three correct answers in a row: 0, 3/10, 156/205,
\* 7167/7510
C12Witness ==
    /\ result.op = "update_mastery"
    /\ steps = 3
    /\ mastery.p_known = <<7167, 7510>>

(***************************************************************************)
(* Properties of the records under the scheduler                           *)
(***************************************************************************)
\* one scheduling representation: no live memory state in learning mode, an
\* initialized one in retention mode
OneRepresentation(m) ==
    /\ m.scheduling_mode = "bkt"
          => ~(m.fsrs_state.set /\ m.fsrs_state.due # NoTime)
    /\ m.scheduling_mode = "fsrs" => m.fsrs_state.set

C14Original ==
    [][(steps' = steps + 1 /\ result'.op = "update_practice_stats")
          => IF /\ mastery.scheduling_mode = "bkt"
                /\ ~IsNone(mastery.p_known)
                /\ RLeq(MASTERY_THRESHOLD, mastery.p_known)
             THEN /\ mastery'.scheduling_mode = "fsrs"
                  /\ mastery'.fsrs_state.set
                  /\ mastery'.transitioned_to_fsrs_at # NoTime
             ELSE mastery'.scheduling_mode = mastery.scheduling_mode]_vars

\* the update of one record by the scheduler's multi-skill update: seeded
\* when it has no memory state, reviewed, and its practice stats updated
SchedulerItemUpdate(m, is_correct, t) ==
    LET seeded == IF ~m.fsrs_state.set THEN initialize_fsrs(m, Good, t) ELSE m
        r == process_review(seeded, RatingOf(is_correct), t)
    IN update_practice_stats(r.rec, is_correct, t)

\* the update of one record by the loops of src/main.py and src/simulate.py
LoopItemUpdate(m, is_correct, t) == interactive_update(m, is_correct, t).rec

\* every record named in ids got its own update and every other record is
\* as it was
UpdatedEach(ids, is_correct) ==
    \A id \in AllIds :
        student'.masteries[id] =
            IF id \notin ids THEN student.masteries[id]
            ELSE IF sresult'.op = "update_multi_skill_exercise"
                 THEN SchedulerItemUpdate(student.masteries[id], is_correct,
                                          now)
                 ELSE LoopItemUpdate(student.masteries[id], is_correct, now)

MultiSkillStep ==
    /\ steps' = steps + 1
    /\ sresult'.op \in {"update_multi_skill_exercise", "interactive_updates"}

PrereqStep ==
    /\ steps' = steps + 1
    /\ sresult'.op \in {"prerequisites_met", "_prerequisites_met"}
    /\ sresult'.args.kp \in DOMAIN graph

CheckedPrerequisites(op, kp, kps) ==
    IF op = "prerequisites_met" THEN Range(graph[kp]) \cap Range(kps)
    ELSE Range(graph[kp])

Qualifying(st, kps) ==
    {i \in 1..Len(kps) :
        \A p \in Range(graph[kps[i]]) \cap Range(kps) :
            is_mastered(st.masteries[p])}

ScoreAt(st, kps, i, last, t) ==
    calculate_kp_score(st, kps[i], PreferType(last), t).score

\* position i holds the best item of the list: it qualifies, no qualifying
\* item scores higher and none with the same score comes before it
BestAt(st, kps, i, last, t) ==
    /\ i \in Qualifying(st, kps)
    /\ \A j \in Qualifying(st, kps) :
          /\ RLeq(ScoreAt(st, kps, j, last, t), ScoreAt(st, kps, i, last, t))
          /\ ScoreAt(st, kps, j, last, t) = ScoreAt(st, kps, i, last, t)
                => i <= j

SharesCluster(target_kp, kp) ==
    \E t \in target_kp.tags \cap kp.tags :
        t \in {"cluster:pronouns", "cluster:adjectives"}

\* the same-cluster items of the vocabulary other than the target
SameClusterAvailable(target_kp, all_vocab) ==
    {i \in DOMAIN all_vocab : /\ all_vocab[i].id # target_kp.id
                              /\ SharesCluster(target_kp, all_vocab[i])}

\* C17: select_distractors never returns the target, returns the
\* same-cluster items before the unrelated ones, and returns an unrelated
\* item only when fewer than count same-cluster items are available.
C17SameClusterFirst ==
    exercise.op = "select_distractors"
        => LET d == exercise.distractors
               target_kp == exercise.target_kp
           IN /\ \A i \in DOMAIN d : d[i].id # target_kp.id
              /\ \A i, j \in DOMAIN d :
                    (i < j /\ SharesCluster(target_kp, d[j]))
                        => SharesCluster(target_kp, d[i])
              /\ (\E i \in DOMAIN d : ~SharesCluster(target_kp, d[i]))
                    => Cardinality(SameClusterAvailable(target_kp, gen.vocab))
                          < exercise.count

\* one same-cluster item came back followed by an unrelated item that has
\* a tag of the target which is not a cluster tag
C17Witness ==
    /\ exercise.op = "select_distractors"
    /\ exercise.count = 3
    /\ Len(exercise.distractors) = 3
    /\ SharesCluster(exercise.target_kp, exercise.distractors[1])
    /\ ~SharesCluster(exercise.target_kp, exercise.distractors[2])
    /\ exercise.target_kp.tags \cap exercise.distractors[2].tags # {}

(***************************************************************************)
(* Properties of the number of distractors in a generated exercise         *)
(***************************************************************************)
Generated ==
    exercise.kind = "exercise" /\ exercise.op \in {"mc_generate", "fb_generate"}

Min3(a, b, c) == Min(a, Min(b, c))

SelectionStep ==
    /\ steps' = steps + 1
    /\ sresult'.op = "select_next_knowledge_point"

StatsStep(correct) ==
    /\ steps' = steps + 1
    /\ result'.op = "update_practice_stats"
    /\ mastery' = update_practice_stats(mastery, correct, now)

\* C26: every call of update_practice_stats sets last_practiced to the
\* time of the call and adds 1 to practice_count; a correct outcome adds 1
\* to correct_count and to the streak, an incorrect one sets the streak to
\* 0 and leaves correct_count as it was.
C26PracticeStats ==
    [][/\ (steps' = steps + 1 /\ result'.op = "update_practice_stats")
            => /\ mastery'.last_practiced = now
               /\ mastery'.practice_count = mastery.practice_count + 1
       /\ StatsStep(TRUE)
            => /\ mastery'.correct_count = mastery.correct_count + 1
               /\ mastery'.consecutive_correct
                     = mastery.consecutive_correct + 1
       /\ StatsStep(FALSE)
            => /\ mastery'.correct_count = mastery.correct_count
               /\ mastery'.consecutive_correct = 0]_vars

\* an incorrect outcome has ended a streak of two
C26Witness ==
    /\ result.op = "update_practice_stats"
    /\ mastery.practice_count = 3
    /\ mastery.correct_count = 2
    /\ mastery.consecutive_correct = 0
    /\ mastery.last_practiced = now

(***************************************************************************)
(* Properties of the session queue of a new student                        *)
(***************************************************************************)
\* C27 (as stated): for a student with no mastery records, when some item
\* has all its prerequisites met, compose_session_queue returns a
\* non-empty queue.
C27Original ==
    [][(/\ steps' = steps + 1
        /\ sresult'.op = "compose_session_queue"
        /\ student.stored = {}
        /\ \E k \in KpIds : AllPrerequisitesMastered(graph, student, k))
          => sresult'.queue # <<>>]_vars

(***************************************************************************)
(* Properties of a review of an initialized record                         *)
(***************************************************************************)
\* C28 (as stated): a review of a record that has a memory state leaves
\* the state that one review step with some rating makes of the state
\* before; the earlier state is not replaced by a fresh one.
C28Original ==
    [][(/\ steps' = steps + 1
        /\ result'.op \in {"process_review", "process_fsrs_review"}
        /\ result'.err = "none"
        /\ mastery.fsrs_state.set)
          => \E rating \in Ratings :
                mastery'.fsrs_state
                    = ReviewCard(mastery.fsrs_state, rating, now)]_vars

(***************************************************************************)
(* Properties of reorder inputs that are not permutations                  *)
(***************************************************************************)
\* the input on record names every display position from 1 to n once
NamesPermutation ==
    /\ \A i \in DOMAIN answer.user_input : IsNumber(answer.user_input[i])
    /\ Len(answer.user_input) = Len(answer.shuffled_items)
    /\ {IntOf(answer.user_input[i]) : i \in DOMAIN answer.user_input}
          = 1..Len(answer.shuffled_items)

\* C29 (as stated): a reorder check judges an input correct only if the
\* input names a permutation of 1..n; an input with 0, a negative number, a
\* number above n, a repeated position or fewer than n positions is judged
\* incorrect.
C29Original ==
    (/\ answer.op \in {"check_answer", "process_user_input"}
     /\ handler.kind \in HandlerKinds
     /\ answer.is_correct)
        => NamesPermutation

(***************************************************************************)
(* Properties of the order of the session queue                            *)
(***************************************************************************)
\* the queue on record was composed in the present student state
QueueComposed ==
    sresult.op = "compose_session_queue" /\ sresult.at = now

InRetentionPool(id) == student.masteries[id].scheduling_mode = "fsrs"

CurrentRetrievability(id) == retrievability(student.masteries[id], now)

Available(pool) ==
    {k \in pool : /\ AllPrerequisitesMastered(graph, student, k)
                  /\ is_due(student.masteries[k], now)}

LearningPool == {k \in KpIds : ~is_mastered(student.masteries[k])}

RetentionPool == {k \in KpIds : is_mastered(student.masteries[k])}

CountIn(q, pool) == Cardinality({i \in DOMAIN q : q[i] \in pool})

ThresholdReached ==
    ~IsNone(mastery.p_known) /\ RLeq(MASTERY_THRESHOLD, mastery.p_known)

\* C30: from a fresh learning-mode record with the default calibration
\* values, once the correct answers have brought the knowledge probability
\* to the mastery threshold the record eventually is in retention mode.
C30Original == ThresholdReached ~> (mastery.scheduling_mode = "fsrs")

(***************************************************************************)
(* Mastery decay.  apply_mastery_decay and DECAY_RATE_PER_WEEK are         *)
(* imported by src/tests/test_scheduler.py but not defined in              *)
(* src/scheduler.py; they follow spec section 4.3 (1) and the tests of     *)
(* TestMasteryDecay.  Time is counted in ticks of HoursPerTick hours.      *)
(***************************************************************************)
DECAY_RATE_PER_WEEK == <<1, 20>>

WeeksSince(last, t) == Norm((t - last) * HoursPerTick, 168)

decay_any_mode(m, t) ==
    IF m.last_practiced # NoTime /\ ~IsNone(m.p_known)
    THEN [m EXCEPT !.p_known =
             RMax(Zero, RSub(@, RMul(DECAY_RATE_PER_WEEK,
                                     WeeksSince(m.last_practiced, t))))]
    ELSE m

decay(m, t) ==
    IF m.scheduling_mode = "bkt" /\ m.last_practiced # NoTime
       /\ ~IsNone(m.p_known)
    THEN [m EXCEPT !.p_known =
             RMax(Zero, RSub(@, RMul(DECAY_RATE_PER_WEEK,
                                     WeeksSince(m.last_practiced, t))))]
    ELSE m

apply_mastery_decay(st, t) ==
    [st EXCEPT !.masteries =
        [k \in AllIds |-> IF k \in st.stored THEN decay(@[k], t) ELSE @[k]]]

Practised(m, t) == [m EXCEPT !.last_practiced = t, !.practice_count = 1]

\* records as loaded from the mastery store: never practised, learning mode
\* practised at time 0 with a middle and with a low probability, retention
\* mode practised at time 0
DecayRecords ==
    {NewMastery(<<1, 2>>, DefaultTransit, DefaultSlip, DefaultGuess, "bkt",
                NoCard),
     Practised(NewMastery(<<1, 2>>, DefaultTransit, DefaultSlip, DefaultGuess,
                          "bkt", NoCard), 0),
     Practised(NewMastery(<<1, 50>>, DefaultTransit, DefaultSlip,
                          DefaultGuess, "bkt", NoCard), 0),
     Practised(RetainedFsrs, 0)}

DecayStudents ==
    {[masteries |-> [k \in AllIds |->
                        IF k = "v001" THEN a ELSE IF k = "v002" THEN b
                        ELSE FreshMastery],
      stored |-> {"v001", "v002"}] : a \in DecayRecords, b \in DecayRecords}

InitDecay ==
    /\ mastery = FreshMastery
    /\ result = NoResult
    /\ now = 0
    /\ steps = 0
    /\ graph = [k \in KpIds |-> <<>>]
    /\ student \in DecayStudents
    /\ sresult = NoQueue
    /\ session = NoSession
    /\ gen = NoGen
    /\ exercise = Idle
    /\ handler = NoHandler
    /\ answer = NoAnswer

ApplyMasteryDecay ==
    SchedStep("apply_mastery_decay", apply_mastery_decay(student, now), <<>>)

NextDecay ==
    \/ ApplyMasteryDecay
    \/ UpdateMultiSkillExercise
    \/ SchedTick

SpecDecay == InitDecay /\ [][NextDecay]_vars

DecayStep == steps' = steps + 1 /\ sresult'.op = "apply_mastery_decay"

Decays(m) == m.scheduling_mode = "bkt" /\ m.last_practiced # NoTime

\* C25: a mastery-decay pass changes no field other than p_known, and that
\* only of learning-mode records practised before: the new value is the
\* old one less DECAY_RATE_PER_WEEK times the weeks since last_practiced,
\* or 0 if that is negative; retention-mode and never-practised records
\* are as they were.
C25DecayFrame ==
    [][DecayStep
         => /\ student'.stored = student.stored
            /\ \A k \in AllIds :
                  LET m == student.masteries[k]
                      n == student'.masteries[k]
                      lowered == RSub(m.p_known,
                                      RMul(DECAY_RATE_PER_WEEK,
                                           WeeksSince(m.last_practiced, now)))
                  IN /\ n = [m EXCEPT !.p_known = n.p_known]
                     /\ Decays(m)
                           => /\ RLeq(Zero, n.p_known)
                              /\ IF RLeq(Zero, lowered)
                                 THEN n.p_known = lowered
                                 ELSE n.p_known = Zero
                     /\ ~Decays(m) => n = m]_vars

\* after a pass half a week after the last practice: one record lowered
\* from 1/2 to 19/40, or one floored at 0, next to a practised
\* retention-mode record that kept its probability
C25Witness ==
    /\ sresult.op = "apply_mastery_decay"
    /\ \E k \in KpIds :
          /\ Decays(student.masteries[k])
          /\ student.masteries[k].last_practiced < now
          /\ student.masteries[k].p_known \in {<<19, 40>>, Zero}
    /\ \E k \in KpIds :
          /\ student.masteries[k].scheduling_mode = "fsrs"
          /\ student.masteries[k].last_practiced # NoTime
          /\ student.masteries[k].last_practiced < now
          /\ student.masteries[k].p_known = One

(***************************************************************************)
(* Blocked practice.  The session state fields practice_mode and           *)
(* active_cluster_tag and the scheduler methods activate_blocked_practice  *)
(* and check_blocked_practice_complete are used by                         *)
(* src/tests/test_scheduler.py but not defined in src/models.py and        *)
(* src/scheduler.py; they follow spec section 4.3 (5).  The test of a      *)
(* cluster is src/menu.py cluster_fully_mastered.                          *)
(***************************************************************************)
\* KnowledgePoint.tags of the knowledge base
KpTags(id) ==
    IF id \in {"v001", "v002"} THEN {"hsk1", "cluster:pronouns"}
    ELSE {"hsk1", "cluster:adjectives"}

\* a cluster of two items, a cluster of one item, a tag no item carries
ClusterTags == {"cluster:pronouns", "cluster:adjectives", "cluster:verbs"}

\* src/menu.py: get_kps_for_cluster
get_kps_for_cluster(cluster_tag) ==
    SelectSeq(KpOrder, LAMBDA id : cluster_tag \in KpTags(id))

\* src/menu.py: cluster_fully_mastered; the loop stops at the first item
\* that is not mastered
RECURSIVE ClusterLoop(_, _, _)
ClusterLoop(st, kps, i) ==
    IF i > Len(kps) THEN [st |-> st, ret |-> TRUE]
    ELSE LET s1 == get_mastery(st, kps[i])
         IN IF ~is_mastered(s1.masteries[kps[i]])
            THEN [st |-> s1, ret |-> FALSE]
            ELSE ClusterLoop(s1, kps, i + 1)

cluster_fully_mastered(st, cluster_tag) ==
    ClusterLoop(st, get_kps_for_cluster(cluster_tag), 1)

activate_blocked_practice(sess, cluster_tag) ==
    [sess EXCEPT !.practice_mode = "blocked",
                 !.active_cluster_tag = cluster_tag]

check_blocked_keeps_cluster(st, sess) ==
    IF sess.practice_mode # "blocked" \/ sess.active_cluster_tag = NoTag
    THEN [st |-> st, session |-> sess, ret |-> FALSE]
    ELSE LET r == cluster_fully_mastered(st, sess.active_cluster_tag)
         IN [st |-> r.st, session |-> sess, ret |-> r.ret]

check_blocked_practice_complete(st, sess) ==
    IF sess.practice_mode # "blocked" \/ sess.active_cluster_tag = NoTag
    THEN [st |-> st, session |-> sess, ret |-> FALSE]
    ELSE LET r == cluster_fully_mastered(st, sess.active_cluster_tag)
         IN IF r.ret
            THEN [st |-> r.st, session |-> NoSession, ret |-> TRUE]
            ELSE [st |-> r.st, session |-> sess, ret |-> FALSE]

InitBlocked ==
    /\ mastery = FreshMastery
    /\ result = NoResult
    /\ now = 0
    /\ steps = 0
    /\ graph = [k \in KpIds |-> <<>>]
    /\ student \in InitStudents
    /\ sresult = NoQueue
    /\ session = NoSession
    /\ gen = NoGen
    /\ exercise = Idle
    /\ handler = NoHandler
    /\ answer = NoAnswer

\* a call on the scheduler that may change the session state; the tag that
\* was active before the call is kept with the result
SessionStep(op, st, sess, ret) ==
    /\ steps < MaxSteps
    /\ steps' = steps + 1
    /\ student' = st
    /\ session' = sess
    /\ sresult' = [op |-> op, queue |-> <<>>, at |-> now,
                   args |-> [NoArgs EXCEPT !.kp = session.active_cluster_tag],
                   met |-> ret]
    /\ UNCHANGED <<mastery, result, now, graph, gvars, hvars>>

ActivateBlockedPractice ==
    \E cluster_tag \in ClusterTags :
        SessionStep("activate_blocked_practice", student,
                    activate_blocked_practice(session, cluster_tag), FALSE)

CheckBlockedPracticeComplete ==
    LET r == check_blocked_practice_complete(student, session)
    IN SessionStep("check_blocked_practice_complete", r.st, r.session, r.ret)

NextBlocked ==
    \/ ActivateBlockedPractice
    \/ CheckBlockedPracticeComplete
    \/ InteractiveUpdates
    \/ SchedTick

SpecBlocked == InitBlocked /\ [][NextBlocked]_vars

CompletionCheck ==
    steps' = steps + 1 /\ sresult'.op = "check_blocked_practice_complete"

ClusterMastered(cluster_tag) ==
    \A k \in KpIds :
        cluster_tag \in KpTags(k) => is_mastered(student.masteries[k])

\* C24: a completion check made while the session is in blocked mode on a
\* cluster whose items are all mastered returns true and leaves the session
\* in interleaved mode with no active cluster.
C24BlockedCompletes ==
    [][(/\ CompletionCheck
        /\ session.practice_mode = "blocked"
        /\ session.active_cluster_tag \in ClusterTags
        /\ ClusterMastered(session.active_cluster_tag))
         => /\ sresult'.met
            /\ session'.practice_mode = "interleaved"
            /\ session'.active_cluster_tag = NoTag]_vars

\* the check has just reported the two-item cluster complete, after an
\* item of it was practised in this session
C24Witness ==
    /\ sresult.op = "check_blocked_practice_complete"
    /\ sresult.met
    /\ sresult.args.kp = "cluster:pronouns"
    /\ session = NoSession
    /\ \E k \in {"v001", "v002"} : student.masteries[k].practice_count > 0

====
